---- MODULE Spec2Model ----
(***************************************************************************)
(* Model of the BaseBet prediction-market escrow ledger                    *)
(* (src/base-bet/src/contracts/PredictionBetting.sol) and of the Twitter   *)
(* bot that polls the mention timeline (src/base-bet/src/bot).             *)
(*                                                                         *)
(* The bot is one thread of control: start(), the polling loop and the     *)
(* for loop over a fetched batch are steps of one program counter, botPc.  *)
(* The ledger and the bot are studied apart: the specifications of the     *)
(* ledger leave the bot as constructed, BotSpec leaves the ledger as       *)
(* deployed.  RouterSpec studies MentionHandler.processMention, one await  *)
(* per step, against the ledger while other accounts use it; a tweet's     *)
(* text is a sequence of characters, parsed as BetParser parses it.        *)
(* CallsSpec studies start() and stop() called several times on one bot,   *)
(* one thread of control per call of start().  ParseSpec studies           *)
(* BetParser.parseBetFromTweet as a function of its text, and the value    *)
(* ContractService.placeBet sends to the ledger for a parsed amount.       *)
(*                                                                         *)
(* One action per external function of the contract.  A call whose         *)
(* require() fails reverts: the ledger state is left unchanged and only    *)
(* lastCall records the revert reason.  Amounts are counted in a smallest  *)
(* unit of which there are Ether per ether (10^18 wei in the deployment).  *)
(* Solidity 0.8 arithmetic is checked; with amounts <= MAX_BET and the     *)
(* bounded number of bets no uint256 operation can overflow.               *)
(***************************************************************************)
EXTENDS Integers, Sequences, FiniteSets, TLC

\* ------------------------------------------------------------------ bounds
Ether == 2000           \* smallest units per ether in the model
MaxBets == 2            \* bets accepted over one run of Spec
MaxSettleBets == 3      \* bets held by the market that SettleSpec resolves
MaxTicks == 1           \* block-time advances over one run
StartTime == 1000000    \* block.timestamp at deployment
MaxEvents == 2          \* mentions posted over one run
MaxClock == 2           \* last value of the wall clock
StartClock == 1         \* wall-clock time at which the bot is constructed
MaxRestarts == 1        \* times the bot process is killed and started again
MaxEmptyChecks == 4     \* value at which the model stops counting empty checks
MaxMentions == 2        \* mentions handed to the router
MaxStarts == 2          \* calls of start() on one bot

\* --------------------------------------------------------- program constants
DAY == 86400
BASIS_POINTS == 10000
InitialPlatformFee == 200
MaxPlatformFee == 1000
MaxDurationDays == 365
DefaultMarketDuration == 30
PollInterval == 60000
MaxInterval == 600000
WaitingInterval == 300000
ErrorPause == 120000
RateLimitPause == 900000
QuietThreshold == 3
MaxResults == 10
MIN_BET == Ether \div 1000
MAX_BET == 10 * Ether

\* ------------------------------------------------------------------ inputs
Deployer == "owner"
Accounts == {"owner", "alice"}
Creators == {"alice"}
ZeroAddress == "0x0"
TweetIds == {"t1", "t2"}
Predictions == {"", "BTC 120k"}
Durations == {0, 1, MaxDurationDays + 1}
Values == {0, MIN_BET - 1, MIN_BET, MAX_BET, MAX_BET + 1}
Fees == {MaxPlatformFee, MaxPlatformFee + 1}
SettleValues == {MIN_BET, Ether \div 20, Ether \div 10}
SettleFees == {0, InitialPlatformFee, MaxPlatformFee}
BotUser == "bot"
Authors == {"bot", "user"}
MentionIds == 1..MaxEvents
NoMention == <<>>
StartOutcomes == {"ok", "twitter", "write", "contract"}
FetchOutcomes == {"ok", "429", "error"}

VARIABLES
    markets,             \* mapping(string => Market)
    marketExists,        \* mapping(string => bool)
    pendingWithdrawals,  \* mapping(address => uint256)
    owner,               \* address public owner
    platformFee,         \* uint256 public platformFee
    balance,             \* address(this).balance
    now,                 \* block.timestamp
    lastCall             \* the most recent transaction: function, caller, revert reason, events, value sent out

\* The Twitter bot (src/base-bet/src/bot/twitter-bot.ts) and the mention
\* timeline it polls.
VARIABLES
    feed,                    \* every mention posted so far, in posting order
    clock,                   \* wall-clock time
    botPc,                   \* where the bot's one thread of control stands
    isRunning,               \* TwitterBot.isRunning
    lastMentionId,           \* TwitterBot.lastMentionId: <<>> for null, <<id>> otherwise
    startTime,               \* TwitterBot.startTime
    userId,                  \* TwitterBot.userId: "" for null
    hasBeenMentioned,        \* TwitterBot.hasBeenMentioned
    consecutiveEmptyChecks,  \* local of intelligentPollForMentions
    currentInterval,         \* local of intelligentPollForMentions, in ms
    sortedMentions,          \* local of checkForNewMentions: the batch being processed
    mentionIndex,            \* position of the for loop in sortedMentions
    processedCount,          \* local of checkForNewMentions
    sleeping,                \* length in ms of the sleep the polling loop is in, 0 when awake
    fetchResult,             \* how the latest userMentionTimeline call ended
    seen,                    \* ids fetched in some batch while they passed the filters
    dispatches,              \* id -> number of times processMention was called on it
    handled,                 \* ids that the handler has processed to the end, reply included
    batchDispatched,         \* ids passed to processMention in the current poll, in order
    restarts,                \* number of times the process was killed and started again
    batchOutcomes,           \* how each processMention call of the current poll ended, in order
    dispatchedAfterStop,     \* number of mentions passed to processMention since stop() was called
    intervalBefore,          \* currentInterval as it was when the last check returned
    router,                  \* MentionHandler: the mention in hand, the handler's position and locals
    loops,                   \* where each call of start() stands, one entry per call
    parser,                  \* BetParser: the text it is called with and what it returned
    anyFailed                \* a dispatch of this run ended in an error

ledger == <<markets, marketExists, pendingWithdrawals, owner, platformFee, balance>>
chainVars == <<ledger, now, lastCall>>
botVars == <<feed, clock, botPc, isRunning, lastMentionId, startTime, userId, hasBeenMentioned,
             consecutiveEmptyChecks, currentInterval, sortedMentions, mentionIndex, processedCount,
             sleeping, fetchResult, seen, dispatches, handled, batchDispatched, restarts,
             batchOutcomes, dispatchedAfterStop, intervalBefore, router, loops, parser, anyFailed>>
vars == <<chainVars, botVars>>

\* ------------------------------------------------------------------- types
Bet(bettor, amount, position, timestamp) ==
    [bettor |-> bettor, amount |-> amount, position |-> position, timestamp |-> timestamp]

\* The value of an untouched mapping slot.
EmptyMarket ==
    [prediction |-> "", tweetId |-> "", creator |-> ZeroAddress, deadline |-> 0,
     resolved |-> FALSE, outcome |-> FALSE, bets |-> <<>>,
     totalAgree |-> 0, totalDisagree |-> 0, active |-> FALSE]

Call(op, sender, tweetId, err, events, sent) ==
    [op |-> op, sender |-> sender, tweetId |-> tweetId, err |-> err, events |-> events, sent |-> sent]

NoCall == Call("none", ZeroAddress, "", "", <<>>, 0)

MarketCreated(tweetId, prediction, creator, deadline) ==
    [name |-> "MarketCreated", tweetId |-> tweetId, prediction |-> prediction,
     creator |-> creator, deadline |-> deadline]

BetPlaced(tweetId, bettor, amount, position) ==
    [name |-> "BetPlaced", tweetId |-> tweetId, bettor |-> bettor, amount |-> amount, position |-> position]

MarketResolved(tweetId, outcome) ==
    [name |-> "MarketResolved", tweetId |-> tweetId, outcome |-> outcome]

Withdrawal(user, amount) ==
    [name |-> "Withdrawal", user |-> user, amount |-> amount]

\* ----------------------------------------------------------------- helpers
RECURSIVE SumAmounts(_)
SumAmounts(bets) ==
    IF bets = <<>> THEN 0 ELSE bets[1].amount + SumAmounts(Tail(bets))

SideBets(bets, position) == SelectSeq(bets, LAMBDA b : b.position = position)

BetsPlaced == SumAmounts(markets["t1"].bets) + SumAmounts(markets["t2"].bets)

BetCount == Len(markets["t1"].bets) + Len(markets["t2"].bets)

\* ====================================================================
\* Texts: a tweet's text is a sequence of characters
\* ====================================================================
Digits == {"0", "1", "2", "3", "4", "5", "6", "7", "8", "9"}

DigitValue ==
    "0" :> 0 @@ "1" :> 1 @@ "2" :> 2 @@ "3" :> 3 @@ "4" :> 4 @@
    "5" :> 5 @@ "6" :> 6 @@ "7" :> 7 @@ "8" :> 8 @@ "9" :> 9

\* The characters the patterns' \s and trim() take for white space.
WhiteSpace == {" ", "\n"}

LowerCase ==
    "A" :> "a" @@ "B" :> "b" @@ "C" :> "c" @@ "D" :> "d" @@ "E" :> "e" @@
    "F" :> "f" @@ "G" :> "g" @@ "H" :> "h" @@ "I" :> "i" @@ "J" :> "j" @@
    "K" :> "k" @@ "L" :> "l" @@ "M" :> "m" @@ "N" :> "n" @@ "O" :> "o" @@
    "P" :> "p" @@ "Q" :> "q" @@ "R" :> "r" @@ "S" :> "s" @@ "T" :> "t" @@
    "U" :> "u" @@ "V" :> "v" @@ "W" :> "w" @@ "X" :> "x" @@ "Y" :> "y" @@
    "Z" :> "z"

\* String.prototype.toLowerCase
KeepCase(text) == text

ToLowerCase(text) ==
    [i \in 1..Len(text) |-> IF text[i] \in DOMAIN LowerCase THEN LowerCase[text[i]] ELSE text[i]]

\* String.prototype.trim
RECURSIVE TrimStart(_)
TrimStart(text) ==
    IF text # <<>> /\ text[1] \in WhiteSpace THEN TrimStart(Tail(text)) ELSE text

RECURSIVE TrimEnd(_)
TrimEnd(text) ==
    IF text # <<>> /\ text[Len(text)] \in WhiteSpace
    THEN TrimEnd(SubSeq(text, 1, Len(text) - 1))
    ELSE text

Trim(text) == TrimEnd(TrimStart(text))

\* text has word at position i.
StartsWithAt(text, i, word) ==
    /\ i >= 1
    /\ i + Len(word) - 1 <= Len(text)
    /\ SubSeq(text, i, i + Len(word) - 1) = word

\* String.prototype.includes
Includes(text, word) == \E i \in 1..(Len(text) + 1) : StartsWithAt(text, i, word)

\* The number of characters of text from position i on that are in set:
\* what a greedy \d* or \s* takes at i.
RECURSIVE RunLength(_, _, _)
RunLength(text, i, set) ==
    IF i <= Len(text) /\ text[i] \in set THEN 1 + RunLength(text, i + 1, set) ELSE 0

\* The length of what (\d+\.?\d*) takes at position i, 0 when text has no
\* digit there.  Taking less than the longest numeral leaves a digit or a dot
\* in front of the rest of the pattern, so backtracking never helps.
NumeralLengthAfter(text, i, whole) ==
    IF whole = 0 THEN 0
    ELSE IF i + whole <= Len(text) /\ text[i + whole] = "."
         THEN whole + 1 + RunLength(text, i + whole + 1, Digits)
         ELSE whole

NumeralLength(text, i) == NumeralLengthAfter(text, i, RunLength(text, i, Digits))

NumeralAt(text, i) == SubSeq(text, i, i + NumeralLength(text, i) - 1)

Leftmost(starts) == CHOOSE i \in starts : \A j \in starts : i <= j

NoMatch == [matched |-> FALSE, group |-> <<>>]

Match(group) == [matched |-> TRUE, group |-> group]

\* text.match(/(\d+\.?\d*)\s*unit/): the leftmost position where a numeral,
\* white space and the unit follow each other; group 1 is the numeral.
UnitFollows(text, i, n, unit) ==
    n > 0 /\ StartsWithAt(text, i + n + RunLength(text, i + n, WhiteSpace), unit)

NumberUnitStarts(text, unit) ==
    {i \in 1..Len(text) : UnitFollows(text, i, NumeralLength(text, i), unit)}

MatchNumberAt(text, starts) ==
    IF starts = {} THEN NoMatch ELSE Match(NumeralAt(text, Leftmost(starts)))

MatchNumberUnit(text, unit) == MatchNumberAt(text, NumberUnitStarts(text, unit))

\* text.match(/unit\s*(\d+\.?\d*)/): the leftmost position where the unit,
\* white space and a numeral follow each other.
NumeralAfter(text, i, unit) == i + Len(unit) + RunLength(text, i + Len(unit), WhiteSpace)

UnitNumberStarts(text, unit) ==
    {i \in 1..Len(text) :
        StartsWithAt(text, i, unit) /\ NumeralLength(text, NumeralAfter(text, i, unit)) > 0}

MatchNumberAfter(text, unit, starts) ==
    IF starts = {} THEN NoMatch
    ELSE Match(NumeralAt(text, NumeralAfter(text, Leftmost(starts), unit)))

MatchUnitNumber(text, unit) == MatchNumberAfter(text, unit, UnitNumberStarts(text, unit))

\* A decimal number m / 10^d, with no trailing zero in its d decimals.
RECURSIVE Pow10(_)
Pow10(d) == IF d = 0 THEN 1 ELSE 10 * Pow10(d - 1)

RECURSIVE Decimal(_, _)
Decimal(m, d) ==
    IF d > 0 /\ m % 10 = 0 THEN Decimal(m \div 10, d - 1) ELSE [m |-> m, d |-> d]

Zero == Decimal(0, 0)

RECURSIVE DigitsValue(_)
DigitsValue(digits) ==
    IF digits = <<>> THEN 0
    ELSE 10 * DigitsValue(SubSeq(digits, 1, Len(digits) - 1)) + DigitValue[digits[Len(digits)]]

\* parseFloat of a numeral matched by (\d+\.?\d*).
DecimalOf(digits, whole) == Decimal(DigitsValue(digits), Len(digits) - whole)

ParseFloat(numeral) ==
    DecimalOf(SelectSeq(numeral, LAMBDA c : c \in Digits), RunLength(numeral, 1, Digits))

\* amount < 0.001 and amount > 10.
BelowAdvertisedMinimum(amount) == amount.m * 100 < Pow10(amount.d)

BelowMinimum(amount) == amount.m * 1000 < Pow10(amount.d)

AboveMaximum(amount) == amount.m > 10 * Pow10(amount.d)

\* ------------------------------------------------------------- bet parser
EthWord == <<"e", "t", "h">>

EtherWord == <<"e", "t", "h", "e", "r">>

AgreeWords ==
    <<<<"t", "r", "u", "e">>, <<"a", "g", "r", "e", "e">>, <<"y", "e", "s">>, <<"c", "o", "r", "r", "e", "c", "t">>, <<"r", "i", "g", "h", "t">>, <<"w", "i", "l", "l", " ", "h", "a", "p", "p", "e", "n">>, <<"b", "e", "l", "i", "e", "v", "e">>>>

DisagreeWords ==
    <<<<"f", "a", "l", "s", "e">>, <<"d", "i", "s", "a", "g", "r", "e", "e">>, <<"n", "o">>, <<"w", "r", "o", "n", "g">>, <<"i", "n", "c", "o", "r", "r", "e", "c", "t">>, <<"w", "o", "n", "t", " ", "h", "a", "p", "p", "e", "n">>, <<"d", "o", "u", "b", "t">>>>

\* The four amount patterns, tried in order; the first that matches gives
\* the amount, and no match leaves it 0.
AmountMatches(cleanText) ==
    <<MatchNumberUnit(cleanText, EthWord), MatchNumberUnit(cleanText, EtherWord),
      MatchUnitNumber(cleanText, EthWord), MatchUnitNumber(cleanText, EtherWord)>>

FirstMatch(matches, hits) ==
    IF hits = {} THEN Zero ELSE ParseFloat(matches[Leftmost(hits)].group)

Matched(matches) == {i \in 1..Len(matches) : matches[i].matched}

AmountOf(matches) == FirstMatch(matches, Matched(matches))

ParseAmount(cleanText) == AmountOf(AmountMatches(cleanText))

IncludesAny(cleanText, words) == \E i \in 1..Len(words) : Includes(cleanText, words[i])

BetInfo(amount, position, isValid, error) ==
    [amount |-> amount, position |-> position, isValid |-> isValid, error |-> error]

\* BetParser.parseBetFromTweet, from the amount on.
CheckBet(cleanText, amount) ==
    IF amount = Zero
    THEN BetInfo(Zero, FALSE, FALSE, "No valid bet amount found. Use format like '0.1 ETH'")
    ELSE IF BelowMinimum(amount)
    THEN BetInfo(amount, FALSE, FALSE, "Minimum bet amount is 0.001 ETH")
    ELSE IF AboveMaximum(amount)
    THEN BetInfo(amount, FALSE, FALSE, "Maximum bet amount is 10 ETH")
    ELSE IF IncludesAny(cleanText, AgreeWords)
    THEN BetInfo(amount, TRUE, TRUE, "")
    ELSE IF IncludesAny(cleanText, DisagreeWords)
    THEN BetInfo(amount, FALSE, TRUE, "")
    ELSE BetInfo(amount, FALSE, FALSE,
                 "Position unclear. Please specify 'agree/true' or 'disagree/false'")

ParseCleanText(cleanText) == CheckBet(cleanText, ParseAmount(cleanText))

ParseBetFromTweet(text) == ParseCleanText(Trim(ToLowerCase(text)))

\* ------------------------------------------------- the router's predicates
IsBetCommand(text) ==
    Includes(text, <<"b", "e", "t">>) /\ (Includes(text, <<"e", "t", "h">>) \/ Includes(text, <<"e", "t", "h", "e", "r">>))

IsCreateMarketCommand(text) ==
    Includes(text, <<"c", "r", "e", "a", "t", "e">>) \/ Includes(text, <<"n", "e", "w", " ", "b", "e", "t">>) \/ Includes(text, <<"n", "e", "w", " ", "m", "a", "r", "k", "e", "t">>)

IsStatusCommand(text) ==
    Includes(text, <<"s", "t", "a", "t", "u", "s">>) \/ Includes(text, <<"i", "n", "f", "o">>) \/ Includes(text, <<"s", "t", "a", "t", "s">>)

IsHelpCommand(text) ==
    Includes(text, <<"h", "e", "l", "p">>) \/ Includes(text, <<"h", "o", "w">>) \/ Includes(text, <<"c", "o", "m", "m", "a", "n", "d", "s">>)

\* ---------------------------------------------------- the router's values
\* ethers.formatEther: the amount in ether as a decimal number.
FormatEther(units) == Decimal(units * (10000 \div Ether), 4)

\* What ContractService.getMarketInfo makes of the view's answer.
FormatMarketInfo(info) ==
    [prediction |-> info.prediction, deadline |-> info.deadline,
     resolved |-> info.resolved, outcome |-> info.outcome,
     totalAgree |-> FormatEther(info.totalAgree),
     totalDisagree |-> FormatEther(info.totalDisagree),
     betCount |-> info.betCount]

\* A mention as the timeline delivers it.
Mention(id, text, conversation_id) ==
    [id |-> id, text |-> text, conversation_id |-> conversation_id]

\* tweet.conversation_id || tweet.id
MarketId(tweet) == tweet.conversation_id

NoBet == BetInfo(Zero, FALSE, FALSE, "")

\* A reply: the fixed text it is built on, the text it interpolates, and
\* the bet and the market whose figures it interpolates; <<>> is none.
Message(template, text, bet, market) ==
    [template |-> template, text |-> text, bet |-> bet, market |-> market]

\* A reply that is a fixed text and nothing else.
FixedMessage(template) == Message(template, "", <<>>, <<>>)

InvalidBetMessage(betInfo) ==
    Message("{betInfo.error} Example: I bet 0.1 ETH that this is true", betInfo.error, <<>>, <<>>)

BetRegisteredMessage(betInfo, marketInfo) ==
    Message("Bet Registered!", "", <<betInfo>>, <<marketInfo>>)

\* The predictions of the model are shorter than the 150 characters the
\* reply quotes.
MarketCreatedMessage(prediction) == Message("Prediction Market Created!", prediction, <<>>, <<>>)

MarketStatusMessage(marketInfo) == Message("Market Status", "", <<>>, <<marketInfo>>)

\* A call of the contract service and the error it caught, "" when none.
ServiceCall(op, err) == [op |-> op, err |-> err]

\* The handler between two calls of processMention: pc is the await the
\* handler stands at, the other fields are what the last call left.
RouterIdle ==
    [pc |-> "idle", tweet |-> Mention(0, <<>>, ""), handlers |-> <<>>, betInfo |-> NoBet,
     originalTweet |-> <<>>, calls |-> <<>>, message |-> FixedMessage(""), replies |-> <<>>,
     caught |-> FALSE, raised |-> FALSE, served |-> 0]

\* -------------------------------------------------------- initial states
\* The bot as its constructor leaves it, at time StartClock, facing a
\* timeline that holds the mentions `posted`.
Constructed(posted) ==
    /\ feed = posted
    /\ clock = StartClock
    /\ botPc = "constructed"
    /\ isRunning = FALSE
    /\ lastMentionId = NoMention
    /\ startTime = StartClock
    /\ userId = ""
    /\ hasBeenMentioned = FALSE
    /\ consecutiveEmptyChecks = 0
    /\ currentInterval = PollInterval
    /\ sortedMentions = <<>>
    /\ mentionIndex = 1
    /\ processedCount = 0
    /\ sleeping = 0
    /\ fetchResult = "none"
    /\ seen = {}
    /\ dispatches = [id \in MentionIds |-> 0]
    /\ handled = {}
    /\ batchDispatched = <<>>
    /\ restarts = 0
    /\ batchOutcomes = <<>>
    /\ dispatchedAfterStop = 0
    /\ intervalBefore = PollInterval
    /\ router = RouterIdle
    /\ loops = <<>>
    /\ anyFailed = FALSE

\* The contract as its constructor leaves it.
\* BetParser holds no state: what is kept is the text of a call and what
\* the call returned.
Unparsed(text) ==
    [text |-> text, betInfo |-> <<>>, variant |-> <<>>, variantInfo |-> <<>>, placed |-> <<>>]

Deployed ==
    /\ markets = [id \in TweetIds |-> EmptyMarket]
    /\ marketExists = [id \in TweetIds |-> FALSE]
    /\ pendingWithdrawals = [a \in Accounts |-> 0]
    /\ owner = Deployer
    /\ platformFee = InitialPlatformFee
    /\ balance = 0
    /\ now = StartTime
    /\ lastCall = NoCall

Init == Deployed /\ Constructed(<<>>) /\ parser = Unparsed(<<>>)

\* ------------------------------------------------------------ createMarket
CreateMarketErrorNoExistsCheck(tweetId, prediction, durationDays) ==
    IF ~(Len(prediction) > 0) THEN "Invalid prediction"
    ELSE IF ~(durationDays > 0 /\ durationDays <= MaxDurationDays) THEN "Invalid duration"
    ELSE ""

CreateMarketError(tweetId, prediction, durationDays) ==
    IF marketExists[tweetId] THEN "Market already exists"
    ELSE IF ~(Len(prediction) > 0) THEN "Invalid prediction"
    ELSE IF ~(durationDays > 0 /\ durationDays <= MaxDurationDays) THEN "Invalid duration"
    ELSE ""

NewMarketDeadlineInSeconds(old, tweetId, prediction, sender, durationDays, timestamp) ==
    [old EXCEPT !.prediction = prediction,
                !.tweetId = tweetId,
                !.creator = sender,
                !.deadline = timestamp + durationDays,
                !.resolved = FALSE,
                !.outcome = FALSE,
                !.totalAgree = 0,
                !.totalDisagree = 0,
                !.active = TRUE]

\* The writes of createMarket to the market's slot; the bets array of the
\* slot is not written.
NewMarketNotActivated(old, tweetId, prediction, sender, durationDays, timestamp) ==
    [old EXCEPT !.prediction = prediction,
                !.tweetId = tweetId,
                !.creator = sender,
                !.deadline = timestamp + durationDays * DAY,
                !.resolved = FALSE,
                !.outcome = FALSE,
                !.totalAgree = 0,
                !.totalDisagree = 0]

NewMarket(old, tweetId, prediction, sender, durationDays, timestamp) ==
    [old EXCEPT !.prediction = prediction,
                !.tweetId = tweetId,
                !.creator = sender,
                !.deadline = timestamp + durationDays * DAY,
                !.resolved = FALSE,
                !.outcome = FALSE,
                !.totalAgree = 0,
                !.totalDisagree = 0,
                !.active = TRUE]

CreateMarketWith(durations) ==
    \E sender \in Creators, tweetId \in TweetIds, prediction \in Predictions, durationDays \in durations :
        LET err == CreateMarketError(tweetId, prediction, durationDays) IN
        IF err = ""
        THEN /\ markets' = [markets EXCEPT ![tweetId] =
                               NewMarket(markets[tweetId], tweetId, prediction, sender, durationDays, now)]
             /\ marketExists' = [marketExists EXCEPT ![tweetId] = TRUE]
             /\ lastCall' = Call("createMarket", sender, tweetId, "",
                                 <<MarketCreated(tweetId, prediction, sender, now + durationDays * DAY)>>, 0)
             /\ UNCHANGED <<pendingWithdrawals, owner, platformFee, balance, now, botVars>>
        ELSE /\ lastCall' = Call("createMarket", sender, tweetId, err, <<>>, 0)
             /\ UNCHANGED <<markets, marketExists, pendingWithdrawals, owner, platformFee, balance, now, botVars>>

CreateMarket == CreateMarketWith(Durations)

\* The view getMarketInfo: what it returns, read from storage ms, for a
\* market that exists.
GetMarketInfo(ms, tweetId) ==
    LET market == ms[tweetId] IN
    [prediction |-> market.prediction, deadline |-> market.deadline,
     resolved |-> market.resolved, outcome |-> market.outcome,
     totalAgree |-> market.totalAgree, totalDisagree |-> market.totalDisagree,
     betCount |-> Len(market.bets)]

\* ---------------------------------------------------------------- placeBet
PlaceBetErrorNoMax(tweetId, value) ==
    IF ~marketExists[tweetId] THEN "Market does not exist"
    ELSE IF ~markets[tweetId].active THEN "Market not active"
    ELSE IF ~(now < markets[tweetId].deadline) THEN "Betting period ended"
    ELSE IF markets[tweetId].resolved THEN "Market already resolved"
    ELSE IF ~(value > 0) THEN "Bet amount must be > 0"
    ELSE IF ~(value >= MIN_BET) THEN "Minimum bet is 0.001 ETH"
    ELSE ""

PlaceBetErrorNoDeadline(tweetId, value) ==
    IF ~marketExists[tweetId] THEN "Market does not exist"
    ELSE IF ~markets[tweetId].active THEN "Market not active"
    ELSE IF markets[tweetId].resolved THEN "Market already resolved"
    ELSE IF ~(value > 0) THEN "Bet amount must be > 0"
    ELSE IF ~(value >= MIN_BET) THEN "Minimum bet is 0.001 ETH"
    ELSE IF ~(value <= MAX_BET) THEN "Maximum bet is 10 ETH"
    ELSE ""

PlaceBetError(tweetId, value) ==
    IF ~marketExists[tweetId] THEN "Market does not exist"
    ELSE IF ~markets[tweetId].active THEN "Market not active"
    ELSE IF ~(now < markets[tweetId].deadline) THEN "Betting period ended"
    ELSE IF markets[tweetId].resolved THEN "Market already resolved"
    ELSE IF ~(value > 0) THEN "Bet amount must be > 0"
    ELSE IF ~(value >= MIN_BET) THEN "Minimum bet is 0.001 ETH"
    ELSE IF ~(value <= MAX_BET) THEN "Maximum bet is 10 ETH"
    ELSE ""

AddBetPrepend(m, sender, value, position, timestamp) ==
    LET pushed == [m EXCEPT !.bets = <<Bet(sender, value, position, timestamp)>> \o @] IN
    IF position
    THEN [pushed EXCEPT !.totalAgree = @ + value]
    ELSE [pushed EXCEPT !.totalDisagree = @ + value]

AddBetAgreeOnly(m, sender, value, position, timestamp) ==
    LET pushed == [m EXCEPT !.bets = Append(@, Bet(sender, value, position, timestamp))] IN
    IF position
    THEN [pushed EXCEPT !.totalAgree = @ + value]
    ELSE pushed

AddBet(m, sender, value, position, timestamp) ==
    LET pushed == [m EXCEPT !.bets = Append(@, Bet(sender, value, position, timestamp))] IN
    IF position
    THEN [pushed EXCEPT !.totalAgree = @ + value]
    ELSE [pushed EXCEPT !.totalDisagree = @ + value]

PlaceBet ==
    \E sender \in Accounts, tweetId \in TweetIds, position \in BOOLEAN, value \in Values :
        LET err == PlaceBetError(tweetId, value) IN
        IF err = ""
        THEN /\ BetCount < MaxBets
             /\ markets' = [markets EXCEPT ![tweetId] = AddBet(@, sender, value, position, now)]
             /\ balance' = balance + value
             /\ lastCall' = Call("placeBet", sender, tweetId, "",
                                 <<BetPlaced(tweetId, sender, value, position)>>, 0)
             /\ UNCHANGED <<marketExists, pendingWithdrawals, owner, platformFee, now, botVars>>
        ELSE /\ lastCall' = Call("placeBet", sender, tweetId, err, <<>>, 0)
             /\ UNCHANGED <<markets, marketExists, pendingWithdrawals, owner, platformFee, balance, now, botVars>>

\* ----------------------------------------------------------- resolveMarket
ResolveMarketErrorNoResolvedCheck(sender, tweetId) ==
    IF sender # owner THEN "Only owner"
    ELSE IF ~marketExists[tweetId] THEN "Market does not exist"
    ELSE IF ~markets[tweetId].active THEN "Market not active"
    ELSE IF ~(now >= markets[tweetId].deadline) THEN "Market not yet expired"
    ELSE ""

ResolveMarketErrorAnyCaller(sender, tweetId) ==
    IF ~marketExists[tweetId] THEN "Market does not exist"
    ELSE IF ~markets[tweetId].active THEN "Market not active"
    ELSE IF markets[tweetId].resolved THEN "Already resolved"
    ELSE IF ~(now >= markets[tweetId].deadline) THEN "Market not yet expired"
    ELSE ""

ResolveMarketError(sender, tweetId) ==
    IF sender # owner THEN "Only owner"
    ELSE IF ~marketExists[tweetId] THEN "Market does not exist"
    ELSE IF ~markets[tweetId].active THEN "Market not active"
    ELSE IF markets[tweetId].resolved THEN "Already resolved"
    ELSE IF ~(now >= markets[tweetId].deadline) THEN "Market not yet expired"
    ELSE ""

WinningPool(m, outcome) == IF outcome THEN m.totalAgree ELSE m.totalDisagree

LosingPool(m, outcome) == IF outcome THEN m.totalDisagree ELSE m.totalAgree

PrizePoolWithFee(losingPool, platformFeeAmount) == losingPool

PrizePool(losingPool, platformFeeAmount) == losingPool - platformFeeAmount

PlatformFeeAmount(losingPool, fee) == (losingPool * fee) \div BASIS_POINTS

WinningsShareOnly(amount, prizePool, winningPool) == (amount * prizePool) \div winningPool

Winnings(amount, prizePool, winningPool) == amount + (amount * prizePool) \div winningPool

RefundFirst(pw, bets) ==
    IF bets = <<>> THEN pw
    ELSE [pw EXCEPT ![bets[1].bettor] = @ + bets[1].amount]

\* The refund loop: every bet's amount goes back to its bettor.
RECURSIVE RefundAll(_, _)
RefundAll(pw, bets) ==
    IF bets = <<>> THEN pw
    ELSE RefundAll([pw EXCEPT ![bets[1].bettor] = @ + bets[1].amount], Tail(bets))

\* The distribution loop: every bet on the winning side is paid its winnings.
RECURSIVE Distribute(_, _, _, _, _)
Distribute(pw, bets, outcome, prizePool, winningPool) ==
    IF bets = <<>> THEN pw
    ELSE LET bet == bets[1]
             paid == IF bet.position = outcome
                     THEN [pw EXCEPT ![bet.bettor] = @ + Winnings(bet.amount, prizePool, winningPool)]
                     ELSE pw
         IN Distribute(paid, Tail(bets), outcome, prizePool, winningPool)

\* pendingWithdrawals after the body of resolveMarket has run on market m.
Settle(pw, m, outcome) ==
    LET totalPool == m.totalAgree + m.totalDisagree
        winningPool == WinningPool(m, outcome)
        losingPool == LosingPool(m, outcome)
        platformFeeAmount == PlatformFeeAmount(losingPool, platformFee)
        prizePool == PrizePool(losingPool, platformFeeAmount)
    IN  IF totalPool = 0 THEN pw
        ELSE IF winningPool = 0 THEN RefundAll(pw, m.bets)
        ELSE LET paid == Distribute(pw, m.bets, outcome, prizePool, winningPool)
             IN [paid EXCEPT ![owner] = @ + platformFeeAmount]

\* The events of a successful resolveMarket: the function returns before
\* its emit statement when the market holds no value.
ResolveEvents(m, tweetId, outcome) ==
    IF m.totalAgree + m.totalDisagree = 0 THEN <<>> ELSE <<MarketResolved(tweetId, outcome)>>

ResolveMarket ==
    \E sender \in Accounts, tweetId \in TweetIds, outcome \in BOOLEAN :
        LET err == ResolveMarketError(sender, tweetId) IN
        IF err = ""
        THEN /\ markets' = [markets EXCEPT ![tweetId].resolved = TRUE, ![tweetId].outcome = outcome]
             /\ pendingWithdrawals' = Settle(pendingWithdrawals, markets[tweetId], outcome)
             /\ lastCall' = Call("resolveMarket", sender, tweetId, "",
                                 ResolveEvents(markets[tweetId], tweetId, outcome), 0)
             /\ UNCHANGED <<marketExists, owner, platformFee, balance, now, botVars>>
        ELSE /\ lastCall' = Call("resolveMarket", sender, tweetId, err, <<>>, 0)
             /\ UNCHANGED <<markets, marketExists, pendingWithdrawals, owner, platformFee, balance, now, botVars>>

\* ---------------------------------------------------------------- withdraw
WithdrawErrorNoFundsCheck(sender, accepts) ==
    IF ~accepts \/ balance < pendingWithdrawals[sender] THEN "transfer failed"
    ELSE ""

\* transfer() reverts the whole call when the recipient refuses the value or
\* the contract does not hold it.
WithdrawError(sender, accepts) ==
    IF ~(pendingWithdrawals[sender] > 0) THEN "No funds to withdraw"
    ELSE IF ~accepts \/ balance < pendingWithdrawals[sender] THEN "transfer failed"
    ELSE ""

ClearPendingForgotten(pw, sender) == pw

ClearPending(pw, sender) == [pw EXCEPT ![sender] = 0]

RevertedStorageKeepsWrites(before, written) == written

\* A transfer that fails is reached after the balance was zeroed; the revert
\* it raises returns storage to what it was before the call.
RevertedStorage(before, written) == before

Withdraw ==
    \E sender \in Accounts, accepts \in BOOLEAN :
        LET err == WithdrawError(sender, accepts)
            amount == pendingWithdrawals[sender]
        IN
        IF err = ""
        THEN /\ pendingWithdrawals' = ClearPending(pendingWithdrawals, sender)
             /\ balance' = balance - amount
             /\ lastCall' = Call("withdraw", sender, "", "", <<Withdrawal(sender, amount)>>, amount)
             /\ UNCHANGED <<markets, marketExists, owner, platformFee, now, botVars>>
        ELSE /\ pendingWithdrawals' =
                    IF err = "transfer failed"
                    THEN RevertedStorage(pendingWithdrawals, ClearPending(pendingWithdrawals, sender))
                    ELSE pendingWithdrawals
             /\ lastCall' = Call("withdraw", sender, "", err, <<>>, 0)
             /\ UNCHANGED <<markets, marketExists, owner, platformFee, balance, now, botVars>>

\* ---------------------------------------------------------- setPlatformFee
SetPlatformFeeError(sender, fee) ==
    IF sender # owner THEN "Only owner"
    ELSE IF ~(fee <= MaxPlatformFee) THEN "Fee cannot exceed 10%"
    ELSE ""

SetPlatformFee ==
    \E sender \in Accounts, fee \in Fees :
        LET err == SetPlatformFeeError(sender, fee) IN
        IF err = ""
        THEN /\ platformFee' = fee
             /\ lastCall' = Call("setPlatformFee", sender, "", "", <<>>, 0)
             /\ UNCHANGED <<markets, marketExists, pendingWithdrawals, owner, balance, now, botVars>>
        ELSE /\ lastCall' = Call("setPlatformFee", sender, "", err, <<>>, 0)
             /\ UNCHANGED <<markets, marketExists, pendingWithdrawals, owner, platformFee, balance, now, botVars>>

\* ------------------------------------------------------------------- time
\* Block time moves forward between transactions.
Tick ==
    /\ now + DAY <= StartTime + MaxTicks * DAY
    /\ now' = now + DAY
    /\ lastCall' = NoCall
    /\ UNCHANGED <<ledger, botVars>>

Next ==
    \/ CreateMarket
    \/ PlaceBet
    \/ ResolveMarket
    \/ Withdraw
    \/ SetPlatformFee
    \/ Tick

Spec == Init /\ [][Next]_vars

\* --------------------------------------------------------------- settlement
\* Resolution and withdrawal studied on their own: the ledger as it stands
\* when one market, created at deployment time for one day, has taken its
\* bets and reached its deadline.  The bets are drawn from a wider range than
\* the runs of Spec can afford.
BetChoices ==
    {Bet(a, v, p, StartTime) : a \in Accounts, v \in SettleValues, p \in BOOLEAN}

BetSeqs == UNION {[1..n -> BetChoices] : n \in 0..MaxSettleBets}

RECURSIVE WithBets(_, _)
WithBets(m, bets) ==
    IF bets = <<>> THEN m
    ELSE WithBets(AddBet(m, bets[1].bettor, bets[1].amount, bets[1].position, bets[1].timestamp),
                  Tail(bets))

SettleInit ==
    \E bets \in BetSeqs, fee \in SettleFees :
        /\ markets = [id \in TweetIds |->
                         IF id = "t1"
                         THEN WithBets(NewMarket(EmptyMarket, "t1", "BTC 120k", "alice", 1, StartTime), bets)
                         ELSE EmptyMarket]
        /\ marketExists = [id \in TweetIds |-> id = "t1"]
        /\ pendingWithdrawals = [a \in Accounts |-> 0]
        /\ owner = Deployer
        /\ platformFee = fee
        /\ balance = SumAmounts(bets)
        /\ now = StartTime + DAY
        /\ lastCall = NoCall
        /\ Constructed(<<>>)
        /\ parser = Unparsed(<<>>)

SettleNext ==
    \/ ResolveMarket
    \/ Withdraw

SettleSpec == SettleInit /\ [][SettleNext]_vars

\* ------------------------------------------------------------------ creation
\* Market creation studied on its own, over the whole range of durations:
\* the two ends of the accepted range, the duration of the bot's default
\* market, and the first value rejected on either side.
AllDurations == {0, 1, DefaultMarketDuration, MaxDurationDays, MaxDurationDays + 1}

CreateNext ==
    \/ CreateMarketWith(AllDurations)
    \/ Tick

CreateSpec == Init /\ [][CreateNext]_vars

\* ====================================================================
\* The Twitter bot
\* ====================================================================
Tweet(id, author_id, created_at) ==
    [id |-> id, author_id |-> author_id, created_at |-> created_at]

Min(a, b) == IF a < b THEN a ELSE b

RECURSIVE Reverse(_)
Reverse(s) == IF s = <<>> THEN <<>> ELSE Append(Reverse(Tail(s)), Head(s))

\* What userMentionTimeline returns: the mentions newer than since_id (all of
\* them when no since_id is given), newest first, max_results at most.
UserMentionTimeline(posted, since) ==
    LET newer == SelectSeq(posted, LAMBDA t : since = NoMention \/ t.id > since[1])
        newestFirst == Reverse(newer)
    IN  SubSeq(newestFirst, 1, Min(Len(newestFirst), MaxResults))

Unsorted(mentionTweets) == mentionTweets

\* Array.prototype.sort with the comparator created_at(a) - created_at(b):
\* ascending creation time, mentions of equal time kept in the order given.
RECURSIVE SortByCreatedAt(_)
SortByCreatedAt(mentionTweets) ==
    IF mentionTweets = <<>> THEN <<>>
    ELSE LET n == Len(mentionTweets)
             last == mentionTweets[n]
             sorted == SortByCreatedAt(SubSeq(mentionTweets, 1, n - 1))
         IN  SelectSeq(sorted, LAMBDA t : t.created_at <= last.created_at)
             \o <<last>>
             \o SelectSeq(sorted, LAMBDA t : t.created_at > last.created_at)

PassesFiltersOwnOnly(mention, self, since) == mention.author_id # self

PassesFiltersSinceOnly(mention, self, since) == ~(mention.created_at < since)

\* The two `continue` filters of the for loop: the bot's own tweets and
\* mentions created before the bot started are skipped.
PassesFilters(mention, self, since) ==
    /\ mention.author_id # self
    /\ ~(mention.created_at < since)

\* How a call of processMention can end inside the handler: the command
\* handled and its reply posted, or an error caught and logged on the way
\* (the catch of processMention, the catch of replyToTweet), which is a
\* rate-limit error (code 429) of the Twitter API or any other error.
ProcessMentionOutcomes == {"handled", "failed", "rateLimited"}

\* What the caller of processMention observes: the handler catches every
\* error, so the call returns normally whatever happened inside.
ProcessMentionResult(outcome) == "returned"

\* The bookkeeping of the polling loop after a check that found `found` mentions.
NextEmptyChecks(found, checks) ==
    IF found > 0 THEN 0 ELSE Min(checks + 1, MaxEmptyChecks)

NextHasBeenMentioned(found, mentioned) == mentioned \/ found > 0

\* currentInterval * 1.5 is a whole number for every interval the loop can
\* hold below MaxInterval (60000, 90000, 135000, 202500, 303750), and is
\* above MaxInterval for the next one, 455625.
\* Variants of the adaptation: one that keeps the interval after a check that
\* found mentions, one that never takes the waiting mode, one that grows the
\* interval from the first empty check on.
NextIntervalKeptWhenFound(found, interval, checks, mentioned) ==
    IF found > 0 THEN interval
    ELSE IF ~mentioned THEN Min(MaxInterval, WaitingInterval)
    ELSE IF NextEmptyChecks(found, checks) >= QuietThreshold
         THEN Min(MaxInterval, (interval * 3) \div 2)
         ELSE interval

NextIntervalNoWaitingMode(found, interval, checks, mentioned) ==
    IF found > 0 THEN PollInterval
    ELSE IF NextEmptyChecks(found, checks) >= QuietThreshold
         THEN Min(MaxInterval, (interval * 3) \div 2)
         ELSE interval

NextIntervalNoThreshold(found, interval, checks, mentioned) ==
    IF found > 0 THEN PollInterval
    ELSE IF ~mentioned THEN Min(MaxInterval, WaitingInterval)
    ELSE Min(MaxInterval, (interval * 3) \div 2)

NextInterval(found, interval, checks, mentioned) ==
    IF found > 0 THEN PollInterval
    ELSE IF ~mentioned THEN Min(MaxInterval, WaitingInterval)
    ELSE IF NextEmptyChecks(found, checks) >= QuietThreshold
         THEN Min(MaxInterval, (interval * 3) \div 2)
         ELSE interval

\* checkForNewMentions has returned `found`: the loop adapts and goes to sleep.
AfterCheck(found) ==
    /\ consecutiveEmptyChecks' = NextEmptyChecks(found, consecutiveEmptyChecks)
    /\ currentInterval' = NextInterval(found, currentInterval, consecutiveEmptyChecks, hasBeenMentioned)
    /\ hasBeenMentioned' = NextHasBeenMentioned(found, hasBeenMentioned)
    /\ sleeping' = NextInterval(found, currentInterval, consecutiveEmptyChecks, hasBeenMentioned)
    /\ intervalBefore' = currentInterval
    /\ botPc' = "sleep"

\* The catch of checkForNewMentions: a rate-limited call makes it return 0,
\* any other error is thrown on to the polling loop.
Rethrown(outcome) == outcome # "ok" /\ outcome # "429"

\* The catch of the polling loop: the pause it takes and the interval it
\* leaves, by the code of the error it caught.
CatchPause(code) == IF code = "429" THEN RateLimitPause ELSE ErrorPause

CatchInterval(code, interval) == IF code = "429" THEN MaxInterval ELSE interval

\* Where the loop stands after its catch block: the catch holds no return,
\* break or throw, so the loop sleeps and comes back to its while test.
AfterCatchLeavesLoop == "idle"

AfterCatch == "sleep"

\* --------------------------------------------------------------------- start
Start ==
    /\ botPc = "constructed"
    /\ \E outcome \in StartOutcomes :
           /\ userId' = IF outcome = "twitter" THEN userId ELSE BotUser
           /\ IF outcome = "ok"
              THEN /\ isRunning' = TRUE
                   /\ botPc' = "poll"
                   /\ consecutiveEmptyChecks' = 0
                   /\ currentInterval' = PollInterval
              ELSE /\ botPc' = "idle"
                   /\ UNCHANGED <<isRunning, consecutiveEmptyChecks, currentInterval>>
    /\ UNCHANGED <<feed, clock, lastMentionId, startTime, hasBeenMentioned,
                   sortedMentions, mentionIndex, processedCount, sleeping, fetchResult,
                   seen, dispatches, handled, batchDispatched, restarts,
                   batchOutcomes, dispatchedAfterStop, intervalBefore, router, loops, parser, anyFailed, chainVars>>

\* ---------------------------------------------------------------------- stop
Stop ==
    /\ isRunning
    /\ isRunning' = FALSE
    /\ UNCHANGED <<feed, clock, botPc, lastMentionId, startTime, userId, hasBeenMentioned,
                   consecutiveEmptyChecks, currentInterval, sortedMentions, mentionIndex,
                   processedCount, sleeping, fetchResult,
                   seen, dispatches, handled, batchDispatched, restarts,
                   batchOutcomes, dispatchedAfterStop, intervalBefore, router, loops, parser, anyFailed, chainVars>>

\* ------------------------------------------------- intelligentPollForMentions
\* The while test fails: the loop, and with it start(), returns.
ExitLoop ==
    /\ botPc = "poll"
    /\ ~isRunning
    /\ botPc' = "idle"
    /\ UNCHANGED <<feed, clock, isRunning, lastMentionId, startTime, userId, hasBeenMentioned,
                   consecutiveEmptyChecks, currentInterval, sortedMentions, mentionIndex,
                   processedCount, sleeping, fetchResult,
                   seen, dispatches, handled, batchDispatched, restarts,
                   batchOutcomes, dispatchedAfterStop, intervalBefore, router, loops, parser, anyFailed, chainVars>>

\* The sleep of the loop ends.
Wake ==
    /\ botPc = "sleep"
    /\ botPc' = "poll"
    /\ sleeping' = 0
    /\ fetchResult' = "none"
    /\ UNCHANGED <<feed, clock, isRunning, lastMentionId, startTime, userId, hasBeenMentioned,
                   consecutiveEmptyChecks, currentInterval, sortedMentions, mentionIndex,
                   processedCount, seen, dispatches, handled, batchDispatched, restarts,
                   batchOutcomes, dispatchedAfterStop, intervalBefore, router, loops, parser, anyFailed, chainVars>>

\* -------------------------------------------------------- checkForNewMentions
\* One pass of the while loop up to the start of the for loop: the timeline
\* is fetched and sorted.  A missing userId, an empty answer and a
\* rate-limited call make checkForNewMentions return 0; any other error of
\* the call is thrown on to the loop, which pauses and goes round again.
Poll ==
    /\ botPc = "poll"
    /\ isRunning
    /\ \E outcome \in FetchOutcomes :
           LET mentionTweets == UserMentionTimeline(feed, lastMentionId) IN
           IF userId = ""
           THEN /\ AfterCheck(0)
                /\ UNCHANGED <<fetchResult, sortedMentions, mentionIndex, processedCount,
                               seen>>
           ELSE /\ fetchResult' = outcome
                /\ IF Rethrown(outcome)
                   THEN /\ botPc' = AfterCatch
                        /\ sleeping' = CatchPause(outcome)
                        /\ currentInterval' = CatchInterval(outcome, currentInterval)
                        /\ UNCHANGED <<consecutiveEmptyChecks, hasBeenMentioned,
                                       sortedMentions, mentionIndex, processedCount,
                                       seen, intervalBefore>>
                   ELSE IF outcome = "429" \/ mentionTweets = <<>>
                   THEN /\ AfterCheck(0)
                        /\ UNCHANGED <<sortedMentions, mentionIndex, processedCount,
                                       seen>>
                   ELSE /\ sortedMentions' = SortByCreatedAt(mentionTweets)
                        /\ mentionIndex' = 1
                        /\ processedCount' = 0
                        /\ botPc' = "process"
                        /\ seen' = seen \cup {mentionTweets[i].id : i \in
                                       {j \in 1..Len(mentionTweets) :
                                            PassesFilters(mentionTweets[j], userId, startTime)}}
                        /\ UNCHANGED <<consecutiveEmptyChecks, currentInterval, hasBeenMentioned,
                                       sleeping, intervalBefore>>
    /\ batchDispatched' = <<>>
    /\ batchOutcomes' = <<>>
    /\ UNCHANGED <<feed, clock, isRunning, lastMentionId, startTime, userId,
                   dispatches, handled, restarts, dispatchedAfterStop, router, loops, parser, anyFailed, chainVars>>

\* One pass of the for loop over sortedMentions: the mention is skipped, or
\* passed to processMention and, after the call, followed by a 3 s pause.
ProcessNext ==
    /\ botPc = "process"
    /\ mentionIndex <= Len(sortedMentions)
    /\ LET mention == sortedMentions[mentionIndex] IN
       IF ~PassesFilters(mention, userId, startTime)
       THEN /\ mentionIndex' = mentionIndex + 1
            /\ UNCHANGED <<processedCount, dispatches, handled, batchDispatched,
                           batchOutcomes, dispatchedAfterStop, anyFailed>>
       ELSE \E outcome \in ProcessMentionOutcomes :
                LET result == ProcessMentionResult(outcome) IN
                /\ dispatches' = [dispatches EXCEPT ![mention.id] = @ + 1]
                /\ handled' = IF outcome = "handled" THEN handled \cup {mention.id} ELSE handled
                /\ batchDispatched' = Append(batchDispatched, mention.id)
                /\ batchOutcomes' = Append(batchOutcomes, outcome)
                /\ anyFailed' = (anyFailed \/ outcome # "handled")
                /\ dispatchedAfterStop' = IF isRunning THEN dispatchedAfterStop
                                          ELSE dispatchedAfterStop + 1
                /\ processedCount' = IF result = "returned" THEN processedCount + 1 ELSE processedCount
                /\ mentionIndex' = IF result = "429" THEN Len(sortedMentions) + 1 ELSE mentionIndex + 1
    /\ UNCHANGED <<feed, clock, botPc, isRunning, lastMentionId, startTime, userId, hasBeenMentioned,
                   consecutiveEmptyChecks, currentInterval, sortedMentions, sleeping, fetchResult,
                   seen, restarts, intervalBefore, router, loops, parser, chainVars>>

\* lastMentionId after the for loop: the id of the last mention of the sorted
\* batch when at least one mention was processed.
NextLastMentionId(cursor, sorted, processed) ==
    IF processed > 0 THEN <<sorted[Len(sorted)].id>> ELSE cursor

\* The for loop is over: the cursor is updated, checkForNewMentions returns
\* processedCount and the polling loop adapts and sleeps.
FinishCheck ==
    /\ botPc = "process"
    /\ mentionIndex > Len(sortedMentions)
    /\ lastMentionId' = NextLastMentionId(lastMentionId, sortedMentions, processedCount)
    /\ AfterCheck(processedCount)
    /\ UNCHANGED <<feed, clock, isRunning, startTime, userId, sortedMentions, mentionIndex,
                   processedCount, fetchResult,
                   seen, dispatches, handled, batchDispatched, restarts,
                   batchOutcomes, dispatchedAfterStop, router, loops, parser, anyFailed, chainVars>>

\* --------------------------------------------------------------- environment
\* Somebody, the bot included, posts a tweet that mentions the bot.
Post ==
    /\ Len(feed) < MaxEvents
    /\ \E author \in Authors : feed' = Append(feed, Tweet(Len(feed) + 1, author, clock))
    /\ UNCHANGED <<clock, botPc, isRunning, lastMentionId, startTime, userId, hasBeenMentioned,
                   consecutiveEmptyChecks, currentInterval, sortedMentions, mentionIndex,
                   processedCount, sleeping, fetchResult,
                   seen, dispatches, handled, batchDispatched, restarts,
                   batchOutcomes, dispatchedAfterStop, intervalBefore, router, loops, parser, anyFailed, chainVars>>

AdvanceClock ==
    /\ clock < MaxClock
    /\ clock' = clock + 1
    /\ UNCHANGED <<feed, botPc, isRunning, lastMentionId, startTime, userId, hasBeenMentioned,
                   consecutiveEmptyChecks, currentInterval, sortedMentions, mentionIndex,
                   processedCount, sleeping, fetchResult,
                   seen, dispatches, handled, batchDispatched, restarts,
                   batchOutcomes, dispatchedAfterStop, intervalBefore, router, loops, parser, anyFailed, chainVars>>

\* The process dies, wherever it stands, and is launched again: every field
\* is what the field initialisers and the constructor make it, startTime is
\* the time of the new launch, and the locals of the old run are gone.
Restart ==
    /\ restarts < MaxRestarts
    /\ botPc # "constructed"
    /\ restarts' = restarts + 1
    /\ botPc' = "constructed"
    /\ isRunning' = FALSE
    /\ lastMentionId' = NoMention
    /\ startTime' = clock
    /\ userId' = ""
    /\ hasBeenMentioned' = FALSE
    /\ consecutiveEmptyChecks' = 0
    /\ currentInterval' = PollInterval
    /\ sortedMentions' = <<>>
    /\ mentionIndex' = 1
    /\ processedCount' = 0
    /\ sleeping' = 0
    /\ fetchResult' = "none"
    /\ batchDispatched' = <<>>
    /\ batchOutcomes' = <<>>
    /\ dispatchedAfterStop' = 0
    /\ intervalBefore' = PollInterval
    /\ loops' = <<>>
    /\ anyFailed' = FALSE
    /\ UNCHANGED <<feed, clock, seen, dispatches, handled, router, parser, chainVars>>

\* Mentions that were on the timeline before the bot was constructed.
EarlierFeeds == {<<>>, <<Tweet(1, "user", StartClock - 1)>>}

BotInit ==
    /\ Deployed
    /\ \E posted \in EarlierFeeds : Constructed(posted)
    /\ parser = Unparsed(<<>>)

\* The steps the bot takes by itself.
BotStep ==
    \/ Start
    \/ Poll
    \/ ProcessNext
    \/ FinishCheck
    \/ Wake
    \/ ExitLoop

BotNext ==
    \/ Start
    \/ Poll
    \/ ProcessNext
    \/ FinishCheck
    \/ Wake
    \/ ExitLoop
    \/ Stop
    \/ Post
    \/ AdvanceClock
    \/ Restart

BotSpec == BotInit /\ [][BotNext]_vars

\* The bot's thread of control is never held back for ever: index.ts calls
\* start() as soon as the bot is constructed, every await of the loop is on a
\* call or a timer that ends, and nothing else runs in the process.
FairBotSpec == BotSpec /\ WF_vars(BotStep)

\* ====================================================================
\* start() and stop() called any number of times on one bot
\* ====================================================================
\* Each call of start() is a thread of control of its own: it stands at one
\* of the awaits of start(), at the while test of the loop it entered, in a
\* fetch, in the dispatch of a batch, or in the sleep of the loop, or it
\* has returned.  What a check fetches and dispatches is left out here.
InLoop == {"while", "fetch", "dispatch", "sleep"}

InFlight == {"fetch", "dispatch"}

\* The calls of start() that stand at one of the places.
At(places) == {i \in 1..Len(loops) : loops[i] \in places}

callVars == <<feed, clock, botPc, lastMentionId, startTime, hasBeenMentioned,
              consecutiveEmptyChecks, currentInterval, sortedMentions, mentionIndex,
              processedCount, sleeping, fetchResult, seen, dispatches, handled,
              batchDispatched, restarts, batchOutcomes, dispatchedAfterStop, intervalBefore,
              router, parser, anyFailed, chainVars>>

\* start() is called: nothing in it looks at isRunning or at an earlier call.
CallStart ==
    /\ Len(loops) < MaxStarts
    /\ loops' = Append(loops, "me")
    /\ UNCHANGED <<isRunning, userId, callVars>>

\* v2.me() answers: the id is cached, or start() returns.
Connect ==
    \E i \in At({"me"}), ok \in BOOLEAN :
        /\ loops' = [loops EXCEPT ![i] = IF ok THEN "accountSettings" ELSE "returned"]
        /\ userId' = IF ok THEN BotUser ELSE userId
        /\ UNCHANGED <<isRunning, callVars>>

\* v1.accountSettings() answers: on to the contract check, or start() returns.
CheckWrite ==
    \E i \in At({"accountSettings"}), ok \in BOOLEAN :
        /\ loops' = [loops EXCEPT ![i] = IF ok THEN "marketExists" ELSE "returned"]
        /\ UNCHANGED <<isRunning, userId, callVars>>

\* contractService.marketExists('test') returns, having caught its own
\* errors: isRunning is set and the loop is entered.
EnterLoop ==
    \E i \in At({"marketExists"}) :
        /\ loops' = [loops EXCEPT ![i] = "while"]
        /\ isRunning' = TRUE
        /\ UNCHANGED <<userId, callVars>>

\* The while test of a loop: on to a check, or the loop and start() return.
TestRunning ==
    \E i \in At({"while"}) :
        /\ loops' = [loops EXCEPT ![i] = IF isRunning THEN "fetch" ELSE "returned"]
        /\ UNCHANGED <<isRunning, userId, callVars>>

\* The fetch of a check answers: with a batch, or with nothing or an error.
Fetch ==
    \E i \in At({"fetch"}), found \in BOOLEAN :
        /\ loops' = [loops EXCEPT ![i] = IF found THEN "dispatch" ELSE "sleep"]
        /\ UNCHANGED <<isRunning, userId, callVars>>

\* The batch is dispatched to the end and the loop goes to sleep.
Dispatch ==
    \E i \in At({"dispatch"}) :
        /\ loops' = [loops EXCEPT ![i] = "sleep"]
        /\ UNCHANGED <<isRunning, userId, callVars>>

WakeUp ==
    \E i \in At({"sleep"}) :
        /\ loops' = [loops EXCEPT ![i] = "while"]
        /\ UNCHANGED <<isRunning, userId, callVars>>

\* stop() is called.
CallStop ==
    /\ isRunning' = FALSE
    /\ UNCHANGED <<loops, userId, callVars>>

CallsNext ==
    \/ CallStart
    \/ Connect
    \/ CheckWrite
    \/ EnterLoop
    \/ TestRunning
    \/ Fetch
    \/ Dispatch
    \/ WakeUp
    \/ CallStop

CallsSpec == Init /\ [][CallsNext]_vars

\* ====================================================================
\* The router: MentionHandler.processMention and its handlers
\* ====================================================================
\* The fields of the ingestor, which the router does not touch.
ingestVars == <<feed, clock, botPc, isRunning, lastMentionId, startTime, userId, hasBeenMentioned,
                consecutiveEmptyChecks, currentInterval, sortedMentions, mentionIndex,
                processedCount, sleeping, fetchResult, seen, dispatches, handled,
                batchDispatched, restarts, batchOutcomes, dispatchedAfterStop, intervalBefore,
                loops, anyFailed>>

\* The mentions handed to the router: in conversation "t1", with these texts.
MentionTexts ==
    {<<"B", "e", "t", " ", "1", " ", "E", "T", "H", " ", "y", "e", "s">>,
     <<"n", "e", "w", " ", "b", "e", "t", " ", "2", " ", "e", "t", "h", " ", "n", "o">>,
     <<"b", "e", "t", " ", "5", "0", " ", "e", "t", "h", " ", "y", "e", "s">>,
     <<"c", "r", "e", "a", "t", "e", " ", "m", "a", "r", "k", "e", "t">>,
     <<"n", "e", "w", " ", "b", "e", "t">>,
     <<"s", "t", "a", "t", "u", "s", " ", "h", "e", "l", "p">>,
     <<"h", "o", "w">>,
     <<"g", "m">>}

Mentions == {Mention(1, text, "t1") : text \in MentionTexts}

\* The tweet a conversation starts with, as singleTweet answers: none, or a
\* tweet with a text.
OriginalTweets == {<<>>} \cup {<<[text |-> prediction]>> : prediction \in Predictions}

\* The account the contract service signs with.
BotWallet == "wallet"

\* A call of the contract service reaches the contract, or fails before it.
ServiceOutcomes == {"ok", "error"}

NetworkError == "could not detect network"

ReplyOutcomes == {"ok", "error", "429"}

\* The if/else chain of processMention: the first predicate that holds
\* names the handler.
ClassifyHelpBeforeStatus(tweetText) ==
    IF IsBetCommand(tweetText) THEN "handleBetRequest"
    ELSE IF IsCreateMarketCommand(tweetText) THEN "handleMarketCreation"
    ELSE IF IsHelpCommand(tweetText) THEN "handleHelpRequest"
    ELSE IF IsStatusCommand(tweetText) THEN "handleStatusRequest"
    ELSE "handleUnknownCommand"

Classify(tweetText) ==
    IF IsBetCommand(tweetText) THEN "handleBetRequest"
    ELSE IF IsCreateMarketCommand(tweetText) THEN "handleMarketCreation"
    ELSE IF IsStatusCommand(tweetText) THEN "handleStatusRequest"
    ELSE IF IsHelpCommand(tweetText) THEN "handleHelpRequest"
    ELSE "handleUnknownCommand"

\* The handler goes to an await, or to its reply.
Awaiting(r, pc) == [r EXCEPT !.pc = pc]

Replying(r, message) == [r EXCEPT !.pc = "reply", !.message = message]

Called(r, op, err) == [r EXCEPT !.calls = Append(@, ServiceCall(op, err))]

\* replyToTweet catches every error of the reply call.
ReplyThrowsOnFailure(outcome) == outcome # "ok"

ReplyThrows(outcome) == FALSE

\* processMention is called: the text is classified and the handler runs up
\* to its first await.
ProcessMention ==
    /\ router.pc = "idle"
    /\ router.served < MaxMentions
    /\ \E tweet \in Mentions :
           LET tweetText == ToLowerCase(tweet.text)
               handler == Classify(tweetText)
               betInfo == IF handler = "handleBetRequest"
                          THEN ParseBetFromTweet(tweet.text) ELSE NoBet
               started == [RouterIdle EXCEPT !.tweet = tweet,
                                             !.handlers = <<handler>>,
                                             !.betInfo = betInfo,
                                             !.served = router.served + 1]
           IN  router' =
                   CASE handler = "handleBetRequest" ->
                            IF ~betInfo.isValid
                            THEN Replying(started, InvalidBetMessage(betInfo))
                            ELSE Awaiting(started, "marketExists")
                     [] handler \in {"handleMarketCreation", "handleStatusRequest"} ->
                            Awaiting(started, "marketExists")
                     [] handler = "handleHelpRequest" -> Replying(started, FixedMessage("Prediction Betting Bot Help"))
                     [] OTHER -> Replying(started, FixedMessage("I didn't understand that command."))
    /\ UNCHANGED <<ingestVars, parser, chainVars>>

\* contractService.marketExists answers: the contract's flag, or false when
\* the call failed.
CallMarketExists ==
    /\ router.pc = "marketExists"
    /\ \E outcome \in ServiceOutcomes :
           LET exists == IF outcome = "ok" THEN marketExists[MarketId(router.tweet)] ELSE FALSE
               called == Called(router, "marketExists", IF outcome = "ok" THEN "" ELSE NetworkError)
               handler == router.handlers[1]
           IN  router' =
                   CASE handler = "handleBetRequest" ->
                            IF exists THEN Awaiting(called, "getMarketInfo")
                            ELSE Awaiting(called, "getOriginalTweet")
                     [] handler = "handleMarketCreation" ->
                            IF exists
                            THEN Replying(called, FixedMessage(
                                     "Market already exists for this prediction! You can place bets now."))
                            ELSE Awaiting(called, "getOriginalTweet")
                     [] OTHER ->
                            IF ~exists
                            THEN Replying(called, FixedMessage(
                                     "No market exists for this prediction yet. Reply with 'create market' to start one!"))
                            ELSE Awaiting(called, "getMarketInfo")
    /\ UNCHANGED <<ingestVars, parser, chainVars>>

\* getOriginalTweet answers: the tweet, or null when it is not there or the
\* call failed.
GetOriginalTweet ==
    /\ router.pc = "getOriginalTweet"
    /\ \E originalTweet \in OriginalTweets :
           LET fetched == [router EXCEPT !.originalTweet = originalTweet] IN
           router' =
               IF router.handlers[1] = "handleBetRequest"
               THEN IF originalTweet # <<>> /\ originalTweet[1].text # ""
                    THEN Awaiting(fetched, "createMarket")
                    ELSE Replying(fetched, FixedMessage("Could not find original tweet to create market."))
               ELSE IF originalTweet = <<>>
                    THEN Replying(fetched, FixedMessage("Could not find the original prediction tweet."))
                    ELSE Awaiting(fetched, "createMarket")
    /\ UNCHANGED <<ingestVars, parser, chainVars>>

\* contractService.createMarket: the transaction is sent and mined, or the
\* call fails before it reaches the contract; false is returned for every
\* failure, a revert of the contract included.
CallCreateMarket ==
    /\ router.pc = "createMarket"
    /\ \E outcome \in ServiceOutcomes :
           LET tweetId == MarketId(router.tweet)
               prediction == router.originalTweet[1].text
               err == IF outcome = "ok"
                      THEN CreateMarketError(tweetId, prediction, DefaultMarketDuration)
                      ELSE NetworkError
               created == err = ""
               called == Called(router, "createMarket", err)
           IN  /\ IF outcome # "ok"
                  THEN UNCHANGED chainVars
                  ELSE IF created
                  THEN /\ markets' = [markets EXCEPT ![tweetId] =
                                         NewMarket(markets[tweetId], tweetId, prediction, BotWallet,
                                                   DefaultMarketDuration, now)]
                       /\ marketExists' = [marketExists EXCEPT ![tweetId] = TRUE]
                       /\ lastCall' = Call("createMarket", BotWallet, tweetId, "",
                                           <<MarketCreated(tweetId, prediction, BotWallet,
                                                           now + DefaultMarketDuration * DAY)>>, 0)
                       /\ UNCHANGED <<pendingWithdrawals, owner, platformFee, balance, now>>
                  ELSE /\ lastCall' = Call("createMarket", BotWallet, tweetId, err, <<>>, 0)
                       /\ UNCHANGED <<ledger, now>>
               /\ router' =
                      IF router.handlers[1] = "handleBetRequest"
                      THEN IF ~created
                           THEN Replying(called, FixedMessage("Failed to create market. Please try again."))
                           ELSE Awaiting(called, "getMarketInfo")
                      ELSE IF created THEN Replying(called, MarketCreatedMessage(prediction))
                           ELSE Replying(called, FixedMessage("Failed to create market. Please try again."))
    /\ UNCHANGED <<ingestVars, parser>>

\* contractService.getMarketInfo: the view's answer with the totals
\* formatted, or null when the view reverted or the call failed.
CallGetMarketInfo ==
    /\ router.pc = "getMarketInfo"
    /\ \E outcome \in ServiceOutcomes :
           LET tweetId == MarketId(router.tweet)
               err == IF outcome # "ok" THEN NetworkError
                      ELSE IF ~marketExists[tweetId] THEN "Market does not exist"
                      ELSE ""
               marketInfo == IF err = "" THEN <<FormatMarketInfo(GetMarketInfo(markets, tweetId))>>
                             ELSE <<>>
               called == Called(router, "getMarketInfo", err)
           IN  router' =
                   IF router.handlers[1] = "handleBetRequest"
                   THEN IF marketInfo = <<>>
                        THEN Replying(called, FixedMessage("Market not found or error retrieving info."))
                        ELSE IF marketInfo[1].resolved
                        THEN Replying(called, FixedMessage("This market has already been resolved."))
                        ELSE Replying(called, BetRegisteredMessage(router.betInfo, marketInfo[1]))
                   ELSE IF marketInfo = <<>>
                        THEN Replying(called, FixedMessage("Error retrieving market information."))
                        ELSE Replying(called, MarketStatusMessage(marketInfo[1]))
    /\ UNCHANGED <<ingestVars, parser, chainVars>>

\* replyToTweet: the reply is attempted and the handler returns.  Were the
\* attempt to throw, the catch of processMention would answer with
\* replyWithError, and an error thrown there would leave processMention.
ReplyToTweet ==
    /\ router.pc = "reply"
    /\ \E outcome \in ReplyOutcomes :
           LET attempted == [router EXCEPT !.replies =
                                Append(@, [message |-> router.message, outcome |-> outcome])]
           IN  router' =
                   IF ~ReplyThrows(outcome) THEN Awaiting(attempted, "idle")
                   ELSE IF ~router.caught
                   THEN [Replying(attempted, FixedMessage("Sorry, something went wrong. Please try again."))
                            EXCEPT !.caught = TRUE]
                   ELSE [Awaiting(attempted, "idle") EXCEPT !.raised = TRUE]
    /\ UNCHANGED <<ingestVars, parser, chainVars>>

\* The router at work while other accounts create markets, the owner
\* resolves them and time passes.
RouterNext ==
    \/ ProcessMention
    \/ CallMarketExists
    \/ GetOriginalTweet
    \/ CallCreateMarket
    \/ CallGetMarketInfo
    \/ ReplyToTweet
    \/ CreateMarket
    \/ ResolveMarket
    \/ Tick

RouterSpec == Init /\ [][RouterNext]_vars

\* ====================================================================
\* BetParser.parseBetFromTweet called on its own
\* ====================================================================
\* The texts the parser is called with: an optional lead, a numeral and a
\* unit in either order (or one of them missing), and a tail of words.
Leads == {<<>>, <<" ", "B", "e", "t", " ">>}

Numerals == {<<>>, <<"0">>, <<"0", ".", "0", "0", "0", "5">>, <<"0", ".", "0", "0", "1">>, <<"0", ".", "5">>, <<"1", ".">>, <<"1", "0">>, <<"1", "0", ".", "0", "0", "0", "5">>, <<"5", "0">>}

Units == {<<>>, <<"e", "t", "h">>, <<" ", "E", "T", "H">>, <<" ", "E", "t", "h", "e", "r">>}

Tails == {<<>>, <<" ", "y", "e", "s">>, <<" ", "N", "O">>, <<" ", "d", "i", "s", "a", "g", "r", "e", "e">>, <<" ", "I", "n", "c", "o", "r", "r", "e", "c", "t">>, <<" ", "i", " ", "k", "n", "o", "w">>, <<" ", "t", "r", "u", "e", " ", "f", "a", "l", "s", "e", " ">>,
          <<" ", "w", "o", "n", "t", " ", "h", "a", "p", "p", "e", "n">>}

ParseTexts ==
    {lead \o numeral \o unit \o tail :
        lead \in Leads, numeral \in Numerals, unit \in Units, tail \in Tails}
    \cup
    {lead \o TrimStart(unit) \o <<" ">> \o numeral \o tail :
        lead \in Leads, numeral \in Numerals, unit \in Units, tail \in Tails}

\* The other case of a letter.
OtherCase(c) ==
    IF c \in DOMAIN LowerCase THEN LowerCase[c]
    ELSE IF \E u \in DOMAIN LowerCase : LowerCase[u] = c
         THEN CHOOSE u \in DOMAIN LowerCase : LowerCase[u] = c
         ELSE c

IsUpper(c) == c \in DOMAIN LowerCase

\* Texts that differ from text in letter case only: text itself, text with
\* every letter in upper case, in lower case, and in the other case.
CaseVariants(text) ==
    {text,
     [i \in 1..Len(text) |-> IF IsUpper(text[i]) THEN text[i] ELSE OtherCase(text[i])],
     [i \in 1..Len(text) |-> IF IsUpper(text[i]) THEN OtherCase(text[i]) ELSE text[i]],
     [i \in 1..Len(text) |-> OtherCase(text[i])]}

\* ethers.parseEther of an amount: the amount in the ledger's units.
Representable(amount) == (amount.m * Ether) % Pow10(amount.d) = 0

ParseEther(amount) == (amount.m * Ether) \div Pow10(amount.d)

\* parseBetFromTweet(text)
ParseBet ==
    /\ parser.betInfo = <<>>
    /\ parser' = [parser EXCEPT !.betInfo = <<ParseBetFromTweet(parser.text)>>]
    /\ UNCHANGED <<ingestVars, router, chainVars>>

\* parseBetFromTweet called once more, with the same text or with one that
\* differs from it in letter case only.
ParseVariant ==
    /\ parser.betInfo # <<>>
    /\ parser.variantInfo = <<>>
    /\ \E variant \in CaseVariants(parser.text) :
           parser' = [parser EXCEPT !.variant = variant,
                                    !.variantInfo = <<ParseBetFromTweet(variant)>>]
    /\ UNCHANGED <<ingestVars, router, chainVars>>

\* ContractService.placeBet with the amount the parser returned, on to the
\* ledger's placeBet.
PlaceParsedBet ==
    /\ parser.betInfo # <<>>
    /\ parser.placed = <<>>
    /\ Representable(parser.betInfo[1].amount)
    /\ \E tweetId \in TweetIds :
           LET value == ParseEther(parser.betInfo[1].amount)
               position == parser.betInfo[1].position
               err == PlaceBetError(tweetId, value) IN
           /\ parser' = [parser EXCEPT !.placed = <<err>>]
           /\ IF err = ""
              THEN /\ BetCount < MaxBets
                   /\ markets' = [markets EXCEPT ![tweetId] = AddBet(@, BotWallet, value, position, now)]
                   /\ balance' = balance + value
                   /\ lastCall' = Call("placeBet", BotWallet, tweetId, "",
                                       <<BetPlaced(tweetId, BotWallet, value, position)>>, 0)
              ELSE /\ lastCall' = Call("placeBet", BotWallet, tweetId, err, <<>>, 0)
                   /\ UNCHANGED <<markets, balance>>
    /\ UNCHANGED <<ingestVars, router, marketExists, pendingWithdrawals, owner, platformFee, now>>

\* The parser is called while market t1 is open.
ParseInit ==
    /\ Constructed(<<>>)
    /\ markets = [id \in TweetIds |->
                     IF id = "t1"
                     THEN NewMarket(EmptyMarket, "t1", "BTC 120k", "alice", 1, StartTime)
                     ELSE EmptyMarket]
    /\ marketExists = [id \in TweetIds |-> id = "t1"]
    /\ pendingWithdrawals = [a \in Accounts |-> 0]
    /\ owner = Deployer
    /\ platformFee = InitialPlatformFee
    /\ balance = 0
    /\ now = StartTime
    /\ lastCall = NoCall
    /\ \E text \in ParseTexts : parser = Unparsed(text)

ParseNext ==
    \/ ParseBet
    \/ ParseVariant
    \/ PlaceParsedBet

ParseSpec == ParseInit /\ [][ParseNext]_vars

\* ====================================================================
\* Properties
\* ====================================================================
RECURSIVE SumOver(_, _)
SumOver(f, S) ==
    IF S = {} THEN 0
    ELSE LET x == CHOOSE y \in S : TRUE IN f[x] + SumOver(f, S \ {x})

BetsOf(bets, a) == SelectSeq(bets, LAMBDA b : b.bettor = a)

IsCall(c, op) == c.op = op

Succeeded(c, op) == c.op = op /\ c.err = ""

Reverted(c, op) == c.op = op /\ c.err # ""

\* The payout the settlement rule assigns to one winning bet, from the bets alone.
RECURSIVE SumWinnings(_, _, _)
SumWinnings(bets, distributable, winningPool) ==
    IF bets = <<>> THEN 0
    ELSE bets[1].amount + (bets[1].amount * distributable) \div winningPool
         + SumWinnings(Tail(bets), distributable, winningPool)

\* What a resolution with at least one winner owes account a: the payouts of
\* a's winning bets, and the fee when a is the platform account.
OwedWithWinners(bets, outcome, feeRate, a, platform) ==
    LET winningPool == SumAmounts(SideBets(bets, outcome))
        losingPool == SumAmounts(SideBets(bets, ~outcome))
        fee == (losingPool * feeRate) \div 10000
        distributable == losingPool - fee
    IN  SumWinnings(BetsOf(SideBets(bets, outcome), a), distributable, winningPool)
        + (IF a = platform THEN fee ELSE 0)

\* C1: in every reachable state, for every existing market,
\* totalAgree + totalDisagree equals the sum of the amounts of the bets
\* recorded in the market's bets sequence.
C1_TotalsMatchBets ==
    \A id \in TweetIds :
        marketExists[id] =>
            markets[id].totalAgree + markets[id].totalDisagree = SumAmounts(markets[id].bets)

\* A market holding bets on both sides, seen after a later call was rejected.
C1_Witness ==
    \E id \in TweetIds :
        /\ marketExists[id]
        /\ markets[id].totalAgree > 0
        /\ markets[id].totalDisagree > 0
        /\ lastCall.err # ""

\* C2: placeBet never succeeds on a market that is resolved, inactive or
\* whose deadline has been reached: the call reverts and the market's bets
\* and totals are unchanged.
C2_NoBetOnClosedMarket ==
    [][\A id \in TweetIds :
          (/\ IsCall(lastCall', "placeBet")
           /\ lastCall'.tweetId = id
           /\ (markets[id].resolved \/ ~markets[id].active \/ now >= markets[id].deadline))
          => /\ lastCall'.err # ""
             /\ markets'[id].bets = markets[id].bets
             /\ markets'[id].totalAgree = markets[id].totalAgree
             /\ markets'[id].totalDisagree = markets[id].totalDisagree]_vars

\* A bet was just refused on an existing, unresolved market at its deadline.
C2_Witness ==
    \E id \in TweetIds :
        /\ Reverted(lastCall, "placeBet")
        /\ lastCall.tweetId = id
        /\ marketExists[id]
        /\ ~markets[id].resolved
        /\ now >= markets[id].deadline
        /\ markets[id].bets # <<>>

\* C3: once a market is resolved its resolved flag and outcome never change;
\* a later resolveMarket on it reverts and leaves the whole ledger unchanged;
\* pendingWithdrawals only ever grows in the step that resolves a market.
C3_ResolvedIsFinal ==
    [][/\ \A id \in TweetIds :
            markets[id].resolved =>
                /\ markets'[id].resolved
                /\ markets'[id].outcome = markets[id].outcome
                /\ (IsCall(lastCall', "resolveMarket") /\ lastCall'.tweetId = id)
                       => (lastCall'.err # "" /\ UNCHANGED ledger)
       /\ (\E a \in Accounts : pendingWithdrawals'[a] > pendingWithdrawals[a])
              => \E id \in TweetIds :
                     /\ Succeeded(lastCall', "resolveMarket")
                     /\ lastCall'.tweetId = id
                     /\ ~markets[id].resolved
                     /\ markets'[id].resolved]_vars

\* The owner's second resolution of a market that paid out was just refused.
C3_Witness ==
    \E id \in TweetIds :
        /\ Reverted(lastCall, "resolveMarket")
        /\ lastCall.tweetId = id
        /\ lastCall.sender = owner
        /\ lastCall.err = "Already resolved"
        /\ markets[id].resolved
        /\ markets[id].bets # <<>>

\* C4: resolveMarket succeeds only for the owner, on an existing market, at
\* or after the deadline; a rejected call changes no market and no
\* pendingWithdrawals entry.
C4_ResolveGuard ==
    [][IsCall(lastCall', "resolveMarket") =>
          LET id == lastCall'.tweetId IN
          /\ lastCall'.err = "" =>
                 /\ lastCall'.sender = owner
                 /\ marketExists[id]
                 /\ now >= markets[id].deadline
          /\ (lastCall'.sender # owner \/ ~marketExists[id] \/ now < markets[id].deadline) =>
                 /\ lastCall'.err # ""
                 /\ markets' = markets
                 /\ pendingWithdrawals' = pendingWithdrawals]_vars

\* The owner has just resolved an existing market holding bets, at its deadline.
C4_Witness ==
    \E id \in TweetIds :
        /\ Succeeded(lastCall, "resolveMarket")
        /\ lastCall.tweetId = id
        /\ lastCall.sender = owner
        /\ markets[id].resolved
        /\ markets[id].bets # <<>>
        /\ now >= markets[id].deadline

\* C5: when resolveMarket succeeds with winningPool > 0, every account's
\* pendingWithdrawals grows by exactly the payouts of its winning bets
\* (stake + stake * distributable / winningPool, truncated per bet), plus the
\* fee (losingPool * platformFee / 10000, truncated) for the owner; losing
\* bets add nothing.
C5_WinnerPayouts ==
    [][\A id \in TweetIds :
          (/\ Succeeded(lastCall', "resolveMarket")
           /\ lastCall'.tweetId = id
           /\ WinningPool(markets[id], markets'[id].outcome) > 0)
          => \A a \in Accounts :
                 pendingWithdrawals'[a] =
                     pendingWithdrawals[a]
                     + OwedWithWinners(markets[id].bets, markets'[id].outcome, platformFee, a, owner)]_vars

\* A resolution with winners has just charged a positive fee on a losing pool.
C5_Witness ==
    \E id \in TweetIds :
        /\ Succeeded(lastCall, "resolveMarket")
        /\ lastCall.tweetId = id
        /\ WinningPool(markets[id], markets[id].outcome) > 0
        /\ PlatformFeeAmount(LosingPool(markets[id], markets[id].outcome), platformFee) > 0
        /\ Len(SideBets(markets[id].bets, markets[id].outcome)) = 2

\* C6: when resolveMarket succeeds on a market with bets but none on the
\* winning side, every account is credited exactly the amounts of its bets
\* and the owner receives no fee.
C6_NoWinnerRefund ==
    [][\A id \in TweetIds :
          (/\ Succeeded(lastCall', "resolveMarket")
           /\ lastCall'.tweetId = id
           /\ markets[id].bets # <<>>
           /\ WinningPool(markets[id], markets'[id].outcome) = 0)
          => \A a \in Accounts :
                 pendingWithdrawals'[a] =
                     pendingWithdrawals[a] + SumAmounts(BetsOf(markets[id].bets, a))]_vars

\* A resolution without winners has just refunded several bets, while a
\* non-zero fee rate was in force and the owner had no bet.
C6_Witness ==
    \E id \in TweetIds :
        /\ Succeeded(lastCall, "resolveMarket")
        /\ lastCall.tweetId = id
        /\ Len(markets[id].bets) >= 2
        /\ WinningPool(markets[id], markets[id].outcome) = 0
        /\ platformFee > 0
        /\ BetsOf(markets[id].bets, owner) = <<>>
        /\ pendingWithdrawals[owner] = 0

Credited(before, after) == SumOver(after, Accounts) - SumOver(before, Accounts)

\* C7: for every successful resolveMarket with winningPool > 0, the sum
\* credited to pendingWithdrawals (payouts plus fee) never exceeds the
\* market's total pool, and the remainder left uncredited is at most one
\* smallest unit per winning bet.
C7_ConservationUpToDust ==
    [][\A id \in TweetIds :
          (/\ Succeeded(lastCall', "resolveMarket")
           /\ lastCall'.tweetId = id
           /\ WinningPool(markets[id], markets'[id].outcome) > 0)
          => LET pool == markets[id].totalAgree + markets[id].totalDisagree
                 credited == Credited(pendingWithdrawals, pendingWithdrawals')
                 winners == Len(SideBets(markets[id].bets, markets'[id].outcome))
             IN  /\ credited <= pool
                 /\ pool - credited <= winners]_vars

\* A resolution with winners has just left dust: less than the pool is credited.
C7_Witness ==
    \E id \in TweetIds :
        /\ Succeeded(lastCall, "resolveMarket")
        /\ lastCall.tweetId = id
        /\ WinningPool(markets[id], markets[id].outcome) > 0
        /\ SumOver(pendingWithdrawals, Accounts) < markets[id].totalAgree + markets[id].totalDisagree

\* C8: every successful resolveMarket emits exactly one MarketResolved fact
\* for that market, whatever the market holds, an empty market included.
C8_ResolveEmitsMarketResolved ==
    Succeeded(lastCall, "resolveMarket") =>
        Len(SelectSeq(lastCall.events,
                      LAMBDA e : e.name = "MarketResolved" /\ e.tweetId = lastCall.tweetId)) = 1

\* C9: pendingWithdrawals is never negative, and withdraw by an account whose
\* balance is zero reverts with no side effects: no ledger change, no value
\* sent, no event.
C9_ZeroBalanceWithdrawFails ==
    /\ [](\A a \in Accounts : pendingWithdrawals[a] >= 0)
    /\ [][(IsCall(lastCall', "withdraw") /\ pendingWithdrawals[lastCall'.sender] = 0)
             => /\ lastCall'.err = "No funds to withdraw"
                /\ lastCall'.sent = 0
                /\ lastCall'.events = <<>>
                /\ UNCHANGED <<ledger, now>>]_vars

\* A withdraw by an account with nothing pending was just refused while the
\* contract holds value.
C9_Witness ==
    /\ Reverted(lastCall, "withdraw")
    /\ lastCall.err = "No funds to withdraw"
    /\ balance > 0

\* C10: a successful withdraw by an account with balance b > 0 zeroes that
\* account's pendingWithdrawals, sends exactly b, and leaves every other
\* account's pendingWithdrawals and every market unchanged; a withdraw by the
\* same account right after it fails.
C10_WithdrawPaysOnce ==
    [][/\ Succeeded(lastCall', "withdraw") =>
              LET s == lastCall'.sender
                  b == pendingWithdrawals[s]
              IN  /\ b > 0
                  /\ pendingWithdrawals'[s] = 0
                  /\ lastCall'.sent = b
                  /\ lastCall'.events = <<Withdrawal(s, b)>>
                  /\ balance' = balance - b
                  /\ \A a \in Accounts \ {s} : pendingWithdrawals'[a] = pendingWithdrawals[a]
                  /\ markets' = markets
                  /\ marketExists' = marketExists
       /\ (/\ Succeeded(lastCall, "withdraw")
           /\ IsCall(lastCall', "withdraw")
           /\ lastCall'.sender = lastCall.sender)
              => lastCall'.err = "No funds to withdraw"]_vars

\* An account has just withdrawn while another account still has funds pending.
C10_Witness ==
    /\ Succeeded(lastCall, "withdraw")
    /\ lastCall.sent > 0
    /\ pendingWithdrawals[lastCall.sender] = 0
    /\ \E a \in Accounts \ {lastCall.sender} : pendingWithdrawals[a] > 0

\* C11 (as stated): after a withdraw whose value transfer failed, the
\* account's pendingWithdrawals is 0 -- the zeroed balance is not credited back.
C11_FailedTransferLeavesZero ==
    (Reverted(lastCall, "withdraw") /\ lastCall.err = "transfer failed")
        => pendingWithdrawals[lastCall.sender] = 0

\* C11 (amended): a withdraw whose value transfer fails reverts as a whole:
\* the account's pendingWithdrawals keeps the positive value it had before the
\* call, the rest of the ledger is unchanged, no value is sent and no
\* Withdrawal fact is emitted.
C11_FailedTransferReverts ==
    [][(IsCall(lastCall', "withdraw") /\ lastCall'.err = "transfer failed")
          => /\ pendingWithdrawals[lastCall'.sender] > 0
             /\ pendingWithdrawals'[lastCall'.sender] = pendingWithdrawals[lastCall'.sender]
             /\ lastCall'.sent = 0
             /\ lastCall'.events = <<>>
             /\ UNCHANGED <<ledger, now>>]_vars

\* A withdraw has just failed in its transfer and the account is still owed.
C11_Witness ==
    /\ Reverted(lastCall, "withdraw")
    /\ lastCall.err = "transfer failed"
    /\ pendingWithdrawals[lastCall.sender] > 0

\* The fields of a market that its creation writes once and for all.
Identity(m) == <<m.prediction, m.tweetId, m.creator, m.deadline, m.active>>

\* C12: createMarket on an id that already exists fails with "Market already
\* exists" and leaves the whole ledger -- the existing market's prediction,
\* creator, deadline, resolved, outcome, bets and totals included -- unchanged,
\* whether that market is open, expired or resolved.
C12_ExistingIdRejected ==
    [][(IsCall(lastCall', "createMarket") /\ marketExists[lastCall'.tweetId])
          => /\ lastCall'.err = "Market already exists"
             /\ lastCall'.events = <<>>
             /\ markets'[lastCall'.tweetId] = markets[lastCall'.tweetId]
             /\ UNCHANGED <<ledger, now>>]_vars

\* createMarket was just refused on a market that is resolved and holds a bet.
C12_Witness ==
    /\ Reverted(lastCall, "createMarket")
    /\ lastCall.err = "Market already exists"
    /\ markets[lastCall.tweetId].resolved
    /\ markets[lastCall.tweetId].bets # <<>>

\* C13: createMarket is refused, with no state change, for every empty
\* prediction and every duration outside [1, 365]; a successful createMarket
\* leaves a market with deadline = now + durationDays days, active, not
\* resolved, with zero totals and no bets, and getMarketInfo right after it
\* returns resolved = false, totalAgree = 0, totalDisagree = 0, betCount = 0.
C13_CreateMarketContract ==
    /\ [](\A id \in TweetIds, p \in Predictions, d \in AllDurations :
             (p = "" \/ d < 1 \/ d > 365) => CreateMarketError(id, p, d) # "")
    /\ [][Reverted(lastCall', "createMarket")
             => (lastCall'.events = <<>> /\ UNCHANGED <<ledger, now>>)]_vars
    /\ [][Succeeded(lastCall', "createMarket")
             => LET id == lastCall'.tweetId
                    m == markets'[id]
                    info == GetMarketInfo(markets', id)
                IN  /\ ~marketExists[id] /\ marketExists'[id]
                    /\ \E d \in 1..365 : d \in AllDurations /\ m.deadline = now + d * DAY
                    /\ m.prediction # "" /\ m.creator = lastCall'.sender
                    /\ m.active /\ ~m.resolved
                    /\ m.totalAgree = 0 /\ m.totalDisagree = 0 /\ m.bets = <<>>
                    /\ lastCall'.events = <<MarketCreated(id, m.prediction, m.creator, m.deadline)>>
                    /\ info.resolved = FALSE /\ info.totalAgree = 0
                    /\ info.totalDisagree = 0 /\ info.betCount = 0
                    /\ info.deadline = m.deadline /\ info.prediction = m.prediction]_vars

\* A market was just created for the longest accepted duration, 365 days.
C13_Witness ==
    /\ Succeeded(lastCall, "createMarket")
    /\ markets[lastCall.tweetId].deadline = now + MaxDurationDays * DAY
    /\ GetMarketInfo(markets, lastCall.tweetId).betCount = 0

\* C14: in every state where a market is resolved, a placeBet on it fails
\* with "Market already resolved".
C14_ResolvedMarketReportsResolved ==
    (IsCall(lastCall, "placeBet") /\ markets[lastCall.tweetId].resolved)
        => lastCall.err = "Market already resolved"

\* C15: placeBet is refused, with no state change, for every amount below
\* MIN_BET or above MAX_BET; a successful placeBet appends exactly one
\* Bet(caller, amount, position, now) at the end of the market's bets, adds
\* the amount to the matching total only, and leaves the other total, the
\* market's other fields, every other market and all pendingWithdrawals
\* unchanged.
C15_PlaceBetContract ==
    /\ [](\A id \in TweetIds, v \in Values :
             (v < MIN_BET \/ v > MAX_BET) => PlaceBetError(id, v) # "")
    /\ [][Reverted(lastCall', "placeBet")
             => (lastCall'.events = <<>> /\ UNCHANGED <<ledger, now>>)]_vars
    /\ [][Succeeded(lastCall', "placeBet")
             => LET id == lastCall'.tweetId
                    e == lastCall'.events[1]
                    old == markets[id]
                    new == markets'[id]
                IN  /\ Len(lastCall'.events) = 1
                    /\ e.name = "BetPlaced" /\ e.tweetId = id /\ e.bettor = lastCall'.sender
                    /\ e.amount >= MIN_BET /\ e.amount <= MAX_BET
                    /\ new.bets = Append(old.bets, Bet(lastCall'.sender, e.amount, e.position, now))
                    /\ new.totalAgree = old.totalAgree + (IF e.position THEN e.amount ELSE 0)
                    /\ new.totalDisagree = old.totalDisagree + (IF e.position THEN 0 ELSE e.amount)
                    /\ Identity(new) = Identity(old)
                    /\ new.resolved = old.resolved /\ new.outcome = old.outcome
                    /\ \A other \in TweetIds \ {id} : markets'[other] = markets[other]
                    /\ UNCHANGED <<marketExists, pendingWithdrawals, owner, platformFee, now>>]_vars

\* A bet of MAX_BET was just appended behind an earlier bet of the other side.
C15_Witness ==
    /\ Succeeded(lastCall, "placeBet")
    /\ LET bets == markets[lastCall.tweetId].bets IN
           /\ Len(bets) = 2
           /\ bets[2].amount = MAX_BET
           /\ bets[1].position # bets[2].position

\* C16: markets and bets are append-only.  In every step, a market that
\* exists still exists, with the same prediction, creator and deadline; its
\* earlier bets are a prefix of its later bets; resolved and outcome change
\* only in the one step that resolves the market, and never after it.
C16_AppendOnly ==
    [][\A id \in TweetIds :
          marketExists[id] =>
              LET old == markets[id]
                  new == markets'[id]
              IN  /\ marketExists'[id]
                  /\ Identity(new) = Identity(old)
                  /\ Len(new.bets) >= Len(old.bets)
                  /\ SubSeq(new.bets, 1, Len(old.bets)) = old.bets
                  /\ old.resolved => (new.resolved /\ new.outcome = old.outcome)
                  /\ (new.resolved # old.resolved \/ new.outcome # old.outcome)
                         => /\ ~old.resolved /\ new.resolved
                            /\ Succeeded(lastCall', "resolveMarket")
                            /\ lastCall'.tweetId = id]_vars

\* A market holding two different bets has been resolved to "agree".
C16_Witness ==
    \E id \in TweetIds :
        /\ markets[id].resolved /\ markets[id].outcome
        /\ Len(markets[id].bets) = 2
        /\ markets[id].bets[1] # markets[id].bets[2]

\* The mention with the given id passes from the bot to processMention in this step.
Dispatched(id) == dispatches'[id] > dispatches[id]

\* C17: no mention created before the bot's start time is ever passed to
\* processMention, whatever the cursor, null included.
C17_NoDispatchBeforeStart ==
    [][\A id \in MentionIds :
          Dispatched(id) => /\ id <= Len(feed)
                            /\ feed[id].created_at >= startTime
                            /\ startTime' = startTime]_vars

\* With the cursor still null, a batch held a mention older than the start
\* time and a newer one: the loop went past the older one without
\* dispatching it and dispatched the newer one.
C17_Witness ==
    /\ lastMentionId = NoMention
    /\ batchDispatched # <<>>
    /\ \E i \in 1..Len(sortedMentions) :
           /\ i < mentionIndex
           /\ sortedMentions[i].author_id # userId
           /\ sortedMentions[i].created_at < startTime
           /\ dispatches[sortedMentions[i].id] = 0

\* C18: the mentions of one batch are dispatched one at a time in ascending
\* order of creation time, each from the batch being processed at the place
\* the loop has reached; a new batch is fetched only when the loop over the
\* batch before it is over.
C18_BatchOrder ==
    [][/\ \A id \in MentionIds :
              Dispatched(id) =>
                  /\ botPc = "process"
                  /\ mentionIndex <= Len(sortedMentions)
                  /\ sortedMentions[mentionIndex].id = id
                  /\ sortedMentions' = sortedMentions
                  /\ dispatches'[id] = dispatches[id] + 1
                  /\ \A other \in MentionIds \ {id} : dispatches'[other] = dispatches[other]
                  /\ batchDispatched' = Append(batchDispatched, id)
                  /\ \A k \in 1..Len(batchDispatched) :
                         feed[batchDispatched[k]].created_at <= feed[id].created_at
       /\ (botPc' = "process" /\ botPc # "process")
              => /\ mentionIndex > Len(sortedMentions)
                 /\ batchDispatched' = <<>>]_vars

\* Two mentions of one batch, which the timeline returned newest first, have
\* been dispatched oldest first.
C18_Witness ==
    /\ Len(batchDispatched) = 2
    /\ batchDispatched[1] < batchDispatched[2]
    /\ feed[batchDispatched[1]].created_at < feed[batchDispatched[2]].created_at

\* C19: the cursor is only advanced past mentions that were dispatched with
\* success: no mention that was fetched while it passed the filters and that
\* the handler has not processed to the end has an id at or before the cursor.
C19_CursorBehindUndelivered ==
    \A id \in seen :
        id \notin handled => (lastMentionId = NoMention \/ id > lastMentionId[1])

\* A mention that was fetched while it passed the filters still waits for a
\* dispatch that succeeds.
Owed(id) == id \in seen /\ id \notin handled

\* The timeline answers a poll of the running bot.
FeedAnswers == botPc # "idle" /\ fetchResult = "ok"

\* C20: at-least-once delivery.  As long as the bot keeps polling and the
\* timeline keeps answering, a mention that is owed -- fetched while it passed
\* the filters and not dispatched with success, because its dispatch failed
\* or because the process died before reaching it -- is passed to
\* processMention once more.
C20_OwedIsRedelivered ==
    ([]<>FeedAnswers) =>
        \A id \in MentionIds, n \in 0..(MaxRestarts + 1) :
            (Owed(id) /\ dispatches[id] = n) ~> (dispatches[id] > n \/ id \in handled)

\* C21: when the dispatch of a mention fails with a rate-limit error, no
\* later mention of the same batch is dispatched in that poll: a rate-limited
\* dispatch is the last dispatch of its batch.
C21_RateLimitEndsBatch ==
    \A i \in 1..Len(batchOutcomes) :
        batchOutcomes[i] = "rateLimited" => i = Len(batchOutcomes)

\* C22: whenever a poll meets a rate-limit error, on the fetch or on a
\* dispatch, the wait before the next poll is the 15 minute cooldown.
C22_RateLimitCoolsDown ==
    (/\ botPc = "sleep"
     /\ \/ fetchResult = "429"
        \/ \E i \in 1..Len(batchOutcomes) : batchOutcomes[i] = "rateLimited")
        => sleeping = RateLimitPause

\* A step in which a check returns to the polling loop with mentions found
\* (the for loop processed at least one), and one in which it returns 0.
FoundPoll == botPc = "process" /\ botPc' = "sleep" /\ processedCount > 0

EmptyPoll ==
    /\ botPc' = "sleep"
    /\ \/ botPc = "poll" /\ fetchResult' # "error"
       \/ botPc = "process" /\ processedCount = 0

\* C23: after a poll that found mentions the loop waits the base interval,
\* the count of consecutive empty polls is 0 and hasBeenMentioned is true,
\* whatever the interval, the count and the flag were before; and the flag,
\* once true, stays true for as long as that bot object lives.
C23_FoundResetsBackoff ==
    [][/\ FoundPoll =>
            /\ sleeping' = PollInterval
            /\ currentInterval' = PollInterval
            /\ consecutiveEmptyChecks' = 0
            /\ hasBeenMentioned'
       /\ (hasBeenMentioned /\ restarts' = restarts) => hasBeenMentioned']_vars

\* A poll has just found a mention when the interval had grown to MaxInterval.
C23_Witness ==
    /\ botPc = "sleep"
    /\ processedCount > 0
    /\ consecutiveEmptyChecks = 0
    /\ intervalBefore = MaxInterval
    /\ sleeping = PollInterval
    /\ hasBeenMentioned

\* C24: while no poll has ever found a mention, every empty poll sets the
\* interval to the first-time idle interval of 5 minutes and waits that long,
\* however many empty polls came before, and the flag stays false.
C24_WaitingMode ==
    [][(EmptyPoll /\ ~hasBeenMentioned) =>
            /\ currentInterval' = WaitingInterval
            /\ sleeping' = WaitingInterval
            /\ ~hasBeenMentioned']_vars

\* The bot was never mentioned and has gone through more empty polls than
\* the threshold of the quiet mode.
C24_Witness ==
    /\ botPc = "sleep"
    /\ ~hasBeenMentioned
    /\ consecutiveEmptyChecks > QuietThreshold
    /\ sleeping = WaitingInterval

\* C25: once a mention was found, each empty poll adds one to the count of
\* consecutive empty polls (the model stops counting at MaxEmptyChecks); while
\* the new count is below QuietThreshold the interval is unchanged, from the
\* threshold on each empty poll multiplies it by 1.5, capped at MaxInterval;
\* the interval and every wait stay between PollInterval and MaxInterval.
C25_QuietMode ==
    [][/\ (EmptyPoll /\ hasBeenMentioned) =>
            /\ consecutiveEmptyChecks' = Min(consecutiveEmptyChecks + 1, MaxEmptyChecks)
            /\ currentInterval' =
                   IF consecutiveEmptyChecks + 1 < QuietThreshold
                   THEN currentInterval
                   ELSE Min(MaxInterval, (currentInterval * 3) \div 2)
            /\ sleeping' = currentInterval'
       /\ PollInterval <= currentInterval' /\ currentInterval' <= MaxInterval
       /\ botPc' = "sleep" => (PollInterval <= sleeping' /\ sleeping' <= MaxInterval)]_vars

\* The interval has grown from the base to the cap in quiet mode.
C25_Witness ==
    /\ botPc = "sleep"
    /\ hasBeenMentioned
    /\ consecutiveEmptyChecks >= QuietThreshold
    /\ intervalBefore < MaxInterval
    /\ sleeping = MaxInterval

\* C30: after stop() at most the mention in flight is still passed to
\* processMention: no further mention of the batch is dispatched.
C30_DrainsAfterStop == dispatchedAfterStop <= 1

\* processMention has returned for the mention in router.tweet.
Returned == router.pc = "idle" /\ router.served > 0

\* The reply a returned call attempted last.
LastReply == router.replies[Len(router.replies)]

FailedCalls == {i \in 1..Len(router.calls) : router.calls[i].err # ""}

C27_AcceptedBetWasPlaced ==
    (Returned /\ LastReply.message.template = "Bet Registered!")
        => \E i \in 1..Len(router.calls) : router.calls[i].op = "placeBet"

\* C28: when the market comes into existence between the marketExists check
\* of the bet path and its createMarket call, so that createMarket is refused
\* because the market already exists, the router goes on with the bet and
\* does not answer that the creation failed.
C28_AlreadyExistsIsSuccess ==
    (/\ router.handlers = <<"handleBetRequest">>
     /\ router.calls = <<ServiceCall("marketExists", ""),
                         ServiceCall("createMarket", "Market already exists")>>)
        => router.message # FixedMessage("Failed to create market. Please try again.")

\* The replies that tell of a failure; they carry the fixed text alone.
FailureMessages ==
    {FixedMessage(template) : template \in
        {"Failed to create market. Please try again.",
         "Could not find original tweet to create market.",
         "Market not found or error retrieving info.",
         "Could not find the original prediction tweet.",
         "No market exists for this prediction yet. Reply with 'create market' to start one!",
         "Error retrieving market information."}}

\* C29: processMention never raises; when it has returned it has attempted
\* one reply, the reply does not carry the error text of any failed ledger
\* call, and when the last ledger call failed the reply is one of the fixed
\* failure messages.
C29_NoFailureEscapes ==
    /\ ~router.raised
    /\ Returned =>
           /\ Len(router.replies) = 1
           /\ \A i \in FailedCalls : LastReply.message.text # router.calls[i].err
           /\ Len(router.calls) \in FailedCalls => LastReply.message \in FailureMessages

\* processMention has returned after a ledger call failed and the reply
\* was refused as well.
C29_Witness ==
    /\ Returned
    /\ FailedCalls # {}
    /\ LastReply.outcome # "ok"
    /\ ~router.raised

\* C31: whatever the sequence of start() and stop() calls on one bot, at
\* most one polling loop is active and at most one fetch or dispatch is in
\* flight.
C31_SinglePipeline ==
    /\ Cardinality(At(InLoop)) <= 1
    /\ Cardinality(At(InFlight)) <= 1

\* The fetch of a poll fails: with a rate limit, or with any other error
\* (permission, authentication, transient).
FailedFetch == botPc = "poll" /\ fetchResult = "none" /\ fetchResult' \in {"429", "error"}

\* The loop sleeps after a failed fetch.
SleepsAfterFailure == botPc = "sleep" /\ fetchResult \in {"429", "error"}

\* C32: a failed fetch never ends the polling loop: whatever the failure,
\* the loop goes to a sleep of finite length with isRunning as it was, and
\* from that sleep it comes back to its while test, unless the process is
\* killed from outside meanwhile.
C32_LoopSurvivesFeedFailure ==
    /\ [][FailedFetch => /\ botPc' = "sleep"
                         /\ sleeping' > 0
                         /\ sleeping' <= RateLimitPause
                         /\ isRunning' = isRunning]_vars
    /\ (SleepsAfterFailure ~> (botPc = "poll" \/ botPc = "constructed"))

C32_Witness ==
    /\ botPc = "sleep"
    /\ fetchResult = "error"
    /\ sleeping = ErrorPause
    /\ isRunning

\* Two texts that differ in letter case only.
DiffersInCaseOnly(a, b) ==
    /\ Len(a) = Len(b)
    /\ \A i \in 1..Len(a) : a[i] = b[i] \/ OtherCase(a[i]) = b[i]

\* C33: parseBetFromTweet is deterministic and case-insensitive: a second
\* call with the same text, or with a text that differs from it in letter
\* case only, returns the same amount, position, validity and error.
C33_CaseInsensitive ==
    (/\ parser.betInfo # <<>>
     /\ parser.variantInfo # <<>>
     /\ DiffersInCaseOnly(parser.text, parser.variant))
        => parser.variantInfo = parser.betInfo

C33_Witness ==
    /\ parser.betInfo # <<>>
    /\ parser.variantInfo # <<>>
    /\ parser.variant # parser.text
    /\ parser.variantInfo[1].isValid
    /\ parser.variantInfo[1].position

IsLetter(c) == OtherCase(c) # c

\* text holds word as a word of its own: no letter stands right before or
\* right after it.
HasWordAt(text, i, word) ==
    /\ StartsWithAt(text, i, word)
    /\ (i = 1 \/ ~IsLetter(text[i - 1]))
    /\ (i + Len(word) > Len(text) \/ ~IsLetter(text[i + Len(word)]))

HasAnyWord(text, words) ==
    \E k \in 1..Len(words), i \in 1..Len(text) : HasWordAt(text, i, words[k])

AmountInRange(amount) == amount # Zero /\ ~BelowMinimum(amount) /\ ~AboveMaximum(amount)

PositionUnclear == "Position unclear. Please specify 'agree/true' or 'disagree/false'"

PositionByWords(info, agrees, disagrees) ==
    AmountInRange(info.amount) =>
        /\ agrees => info.isValid /\ info.position
        /\ (~agrees /\ disagrees) => info.isValid /\ ~info.position
        /\ (~agrees /\ ~disagrees) => ~info.isValid /\ info.error = PositionUnclear

\* C34: with an amount in range, a text that holds a word of the agree
\* vocabulary is parsed as agree, also when it holds disagree words; a text
\* that holds words of the disagree vocabulary only is parsed as disagree; a
\* text that holds neither is rejected with the position-unclear error.
C34_PositionByVocabulary ==
    parser.betInfo # <<>> =>
        PositionByWords(parser.betInfo[1],
                        HasAnyWord(ToLowerCase(parser.text), AgreeWords),
                        HasAnyWord(ToLowerCase(parser.text), DisagreeWords))

\* One of the four amount patterns matches the text: a number stands next
\* to a unit.
NumberFound(text) == Matched(AmountMatches(Trim(ToLowerCase(text)))) # {}

AmountMissing == "No valid bet amount found. Use format like '0.1 ETH'"

AmountOutOfRange == {"Minimum bet amount is 0.001 ETH", "Maximum bet amount is 10 ETH"}

AmountErrors(info, found) ==
    /\ info.error = AmountMissing <=> ~found
    /\ (found /\ (BelowMinimum(info.amount) \/ AboveMaximum(info.amount)))
           => info.error \in AmountOutOfRange
    /\ info.isValid => ~BelowMinimum(info.amount) /\ ~AboveMaximum(info.amount)

\* C35: the parse fails with the amount-missing error exactly when no number
\* next to a unit is found; it fails with an out-of-range error whenever
\* such a number is found and is below the minimum (0 included) or above the
\* maximum, whatever the position words; and an accepted amount is in range.
C35_AmountErrors ==
    parser.betInfo # <<>> => AmountErrors(parser.betInfo[1], NumberFound(parser.text))

\* The errors of placeBet about the value sent.
ValueErrors == {"Bet amount must be > 0", "Minimum bet is 0.001 ETH", "Maximum bet is 10 ETH"}

\* The amount the parser returned was sent to placeBet on an open market.
PlacedOnOpenMarket ==
    /\ parser.placed # <<>>
    /\ lastCall.op = "placeBet"
    /\ marketExists[lastCall.tweetId]

\* C39: parser and ledger agree on the bet bounds: an amount the parser
\* accepts is accepted by placeBet on an open market, and an amount the
\* parser rejects as out of range is rejected by placeBet for its value.
C39_ParserAndLedgerAgree ==
    PlacedOnOpenMarket =>
        /\ parser.betInfo[1].isValid => parser.placed[1] = ""
        /\ parser.betInfo[1].error \in AmountOutOfRange => parser.placed[1] \in ValueErrors

C39_Witness ==
    /\ PlacedOnOpenMarket
    /\ parser.betInfo[1].isValid
    /\ parser.betInfo[1].amount = Decimal(1, 3)
    /\ balance = MIN_BET

\* C36: a mention written by the bot's own account is never passed to
\* processMention.
C36_OwnMentionsNotDispatched ==
    \A id \in 1..Len(feed) : feed[id].author_id = BotUser => dispatches[id] = 0

\* The loop went past a mention of the bot's own in a batch of which it
\* dispatched another mention.
C36_Witness ==
    /\ botPc = "process"
    /\ batchDispatched # <<>>
    /\ \E i \in 1..Len(sortedMentions) :
           /\ i < mentionIndex
           /\ sortedMentions[i].author_id = userId
           /\ ~(sortedMentions[i].created_at < startTime)
           /\ dispatches[sortedMentions[i].id] = 0

\* C40: in one run of the bot in which every dispatch succeeds, no mention
\* is passed to processMention more than once.
C40_DispatchedOnce ==
    (restarts = 0 /\ ~anyFailed) => \A id \in MentionIds : dispatches[id] <= 1

\* C37: escrow solvency.  Whatever the interleaving of placeBet,
\* resolveMarket, withdraw and setPlatformFee, the balances owed to all
\* accounts together never exceed the value the contract holds, so the
\* transfer of any one account's balance is covered.
C37_EscrowSolvent ==
    /\ SumOver(pendingWithdrawals, Accounts) <= balance
    /\ \A a \in Accounts : pendingWithdrawals[a] <= balance

\* After a resolution with winners under the highest fee, one account has
\* withdrawn and the other is still owed.
C37_Witness ==
    /\ platformFee = MaxPlatformFee
    /\ Succeeded(lastCall, "withdraw")
    /\ lastCall.sent > 0
    /\ \E a \in Accounts : pendingWithdrawals[a] > 0
    /\ \E id \in TweetIds :
           markets[id].resolved /\ WinningPool(markets[id], markets[id].outcome) > 0

\* C38: every market that exists is active, in every state, and no call of
\* placeBet or resolveMarket fails with "Market not active".
C38_ExistingMarketsActive ==
    /\ \A id \in TweetIds : marketExists[id] => markets[id].active
    /\ lastCall.err # "Market not active"

\* A market that was created, bet on and resolved is still active.
C38_Witness ==
    \E id \in TweetIds :
        /\ marketExists[id]
        /\ markets[id].resolved
        /\ markets[id].bets # <<>>
        /\ markets[id].active
====
